---- MODULE Spec2Model ----
(***************************************************************************)
(* Model of the insider_scan reconciliation core:                          *)
(*   sources/sec_edgar.py  ticker_to_cik, find_form4_filing_near,          *)
(*                         build_filing_index_url                          *)
(*   cli.py                enrich_sec_links (and the try/except around it  *)
(*                         in run_pipeline)                                *)
(*   merge.py              sha1_event_id, _confidence_rank,                *)
(*                         records_to_df + merge_and_dedupe                *)
(*                                                                         *)
(* and of the insider_scanner merger:                                      *)
(*   core/merger.py        _dedup_key, _richness_score, merge_trades,      *)
(*                         filter_trades                                   *)
(*                                                                         *)
(* Encoding of Python values:                                              *)
(*   date            a day number >= 1; None/NaT is NoDate (0)             *)
(*   float           shares are counted in tenths of a share (10000 is     *)
(*                   1000.0); price and value_usd are whole numbers;       *)
(*                   None/NaN is NoNum (-1)                                *)
(*   str | None      a string; None is NoStr                               *)
(*   sec_link        a tuple of strings, see the "links" section           *)
(***************************************************************************)
EXTENDS Integers, Sequences, FiniteSets, TLC

VARIABLES
    pc,        \* position of the run: "scraped", "enriched", "merged"; "match", "matched",
               \* "fp", "fpdone", "lists", "merged_trades", "unfiltered", "filtered" when
               \* one function is applied on its own
    pass,      \* 1 on the first reconciliation, 2 once the output was fed back
    recent,    \* submissions["filings"]["recent"] of the one registered CIK
    subsOk,    \* whether get_submissions returns (FALSE: it raises)
    records,   \* the batch: per_ticker / all_records, in list order
    raw,       \* the batch as it was before enrich_sec_links touched it
    matched,   \* per record, the filing find_form4_filing_near returned to enrich_sec_links
    raised,    \* index of the record at which enrich_sec_links raised, 0 if it returned
    dedup,     \* merge_and_dedupe: df after the exact event_id pass
    groups,    \* merge_and_dedupe: the fuzzy groups, each a list of positions in dedup
    keep_rows, \* merge_and_dedupe: the merged row of each fuzzy group, in group order
    out,       \* merge_and_dedupe: the returned rows, in order
    out1,      \* the output of the first reconciliation
    query,     \* arguments of the last find_form4_filing_near call made on its own
    found,     \* its result
    fpArgs,    \* the two argument tuples sha1_event_id was last applied to
    fpIds,     \* the two event ids it returned
    trade_lists, \* insider_scanner: the lists of InsiderTrade passed to merge_trades
    trade_objs,  \* the same trade objects, in one list, as merge_trades leaves them
    merged,      \* the list merge_trades returned
    trades,      \* the list passed to filter_trades
    flt,         \* the keyword arguments of the filter_trades call
    result,      \* the list filter_trades returned
    permuted,    \* the rows of records in another order, as a second frame
    out_perm     \* merge_and_dedupe: the rows returned for that second frame

vars == <<pc, pass, recent, subsOk, records, raw, matched, raised,
          dedup, groups, keep_rows, out, out1, query, found, fpArgs, fpIds,
          trade_lists, trade_objs, merged, trades, flt, result, permuted, out_perm>>

\* The variables of the insider_scanner merger.
tradeVars == <<trade_lists, trade_objs, merged, trades, flt, result>>

\* The variables of the second call of merge_and_dedupe on the same rows.
permVars == <<permuted, out_perm>>

----------------------------------------------------------------------------
(* Bounds *)

MaxDay == 3         \* dates are the days 1..MaxDay
MaxFilings == 2     \* entries in a submissions list drawn for the filing matcher
MaxBatch == 2       \* records in a scraped batch
MaxRows == 2        \* rows in a data frame drawn for merge_and_dedupe
MaxOrderRows == 3   \* rows in a data frame drawn for the final ordering
MaxClusterRows == 3 \* rows in a data frame drawn for the clustering of one bucket
MaxPermuted == 3    \* rows in a data frame that is merged in two orders

NoDate == 0
NoNum == -1
NoStr == "<None>"

\* filter_trades called with no criterion at all.
NoFilter ==
    [ticker |-> NoStr, trade_type |-> NoStr, min_value |-> NoNum, congress_only |-> FALSE,
     since |-> NoDate, until |-> NoDate]

\* Nothing of the insider_scanner merger has been called.
TradesIdle ==
    /\ trade_lists = <<>> /\ trade_objs = <<>> /\ merged = <<>>
    /\ trades = <<>> /\ flt = NoFilter /\ result = <<>>

\* No second frame has been drawn.
PermIdle == permuted = <<>> /\ out_perm = <<>>

Days == 1..MaxDay
OptDays == {NoDate} \cup Days

Abs(x) == IF x < 0 THEN -x ELSE x
Min2(a, b) == IF a < b THEN a ELSE b

\* Lexicographic "strictly before" on two integer tuples of the same length.
RECURSIVE LexLess(_, _)
LexLess(a, b) ==
    IF a = <<>> THEN FALSE
    ELSE IF Head(a) < Head(b) THEN TRUE
    ELSE IF Head(a) > Head(b) THEN FALSE
    ELSE LexLess(Tail(a), Tail(b))

\* A function on 1..n as the tuple of its values (each computed once).
AsTuple(f) == f \o <<>>

\* A stable ascending sort, as Python's sorted() and pandas' multi-column
\* sort_values are: K[i] is the integer-tuple key of position i, and the
\* result lists the positions 1..n by key, ties in their original order.
StableOrder(n, K) ==
    LET key == AsTuple(K)
        Before(j, i) == LexLess(key[j], key[i]) \/ (key[j] = key[i] /\ j < i)
        pos == AsTuple([i \in 1..n |-> 1 + Cardinality({j \in 1..n : Before(j, i)})])
    IN  AsTuple([p \in 1..n |-> CHOOSE i \in 1..n : pos[i] = p])

\* The same sort with ties in reverse original order (not stable).
StableOrderTiesReversed(n, K) ==
    LET key == AsTuple(K)
        Before(j, i) == LexLess(key[j], key[i]) \/ (key[j] = key[i] /\ j > i)
        pos == AsTuple([i \in 1..n |-> 1 + Cardinality({j \in 1..n : Before(j, i)})])
    IN  AsTuple([p \in 1..n |-> CHOOSE i \in 1..n : pos[i] = p])

----------------------------------------------------------------------------
(* sources/sec_edgar.py *)

BigScore == 1000000000
DefaultMaxDays == 10

Cik10 == "0000320193"
CikInt == "320193"

\* EdgarFiling; NoFiling stands for a None result (a real filing always has
\* a non-empty accession_no).
EdgarFiling(cik, acc, fdate, form, pdoc) ==
    [cik |-> cik, accession_no |-> acc, filing_date |-> fdate, form |-> form, primary_doc |-> pdoc]
NoFiling == EdgarFiling("", "", NoDate, "", "")

\* _parse_date: a filingDate entry is a day number, or NoDate when the text
\* is empty or does not parse.
ParseDate(s) == IF s >= 1 THEN s ELSE NoDate

\* The candidates loop of find_form4_filing_near: the first
\* min(len(forms), len(filing_dates), len(accession_nos), len(primary_docs))
\* entries, keeping forms 4 and 4/A with a non-empty accession number.
RECURSIVE CandidatesFrom(_, _, _)
CandidatesFrom(rc, i, n) ==
    IF i > n THEN <<>>
    ELSE LET form == rc.form[i]
             acc == rc.accessionNumber[i]
             rest == CandidatesFrom(rc, i + 1, n)
         IN  IF form = NoStr \/ form = "" THEN rest
             ELSE IF form \notin {"4", "4/A"} THEN rest
             ELSE IF acc = NoStr \/ acc = "" THEN rest
             ELSE <<EdgarFiling(Cik10, acc, ParseDate(rc.filingDate[i]), form, rc.primaryDocument[i])>>
                  \o rest

Candidates(rc) ==
    CandidatesFrom(rc, 1,
        Min2(Min2(Len(rc.form), Len(rc.filingDate)),
             Min2(Len(rc.accessionNumber), Len(rc.primaryDocument))))

\* filing_date_hint or trade_date
MatchTarget(trade_date, filing_date_hint) ==
    IF filing_date_hint # NoDate THEN filing_date_hint ELSE trade_date

\* score(f) with an undated filing counted as a filing on the target day
ScoreUndatedIsZero(f, trade_date, filing_date_hint) ==
    LET target == MatchTarget(trade_date, filing_date_hint)
    IN  IF target = NoDate THEN BigScore
        ELSE IF f.filing_date = NoDate THEN 0
        ELSE Abs(f.filing_date - target)

\* score(f)
Score(f, trade_date, filing_date_hint) ==
    LET target == MatchTarget(trade_date, filing_date_hint)
    IN  IF target = NoDate \/ f.filing_date = NoDate THEN BigScore
        ELSE Abs(f.filing_date - target)

\* sorted(candidates, key=score)[0] with the ties taken from the end
BestCandidateLastOfTies(cands, trade_date, filing_date_hint) ==
    LET K == [i \in 1..Len(cands) |-> <<Score(cands[i], trade_date, filing_date_hint)>>]
    IN  cands[StableOrderTiesReversed(Len(cands), K)[1]]

\* sorted(candidates, key=score)[0]
BestCandidate(cands, trade_date, filing_date_hint) ==
    LET K == [i \in 1..Len(cands) |-> <<Score(cands[i], trade_date, filing_date_hint)>>]
    IN  cands[StableOrder(Len(cands), K)[1]]

\* find_form4_filing_near that drops a best candidate farther than max_days
FindForm4FilingNearWithinOnly(rc, trade_date, filing_date_hint, max_days) ==
    LET cands == Candidates(rc)
    IN  IF cands = <<>> THEN NoFiling
        ELSE LET best == BestCandidate(cands, trade_date, filing_date_hint)
                 target == MatchTarget(trade_date, filing_date_hint)
             IN  IF target # NoDate /\ best.filing_date # NoDate
                 THEN IF Abs(best.filing_date - target) <= max_days THEN best
                      ELSE NoFiling
                 ELSE best

\* find_form4_filing_near, after get_submissions returned rc
FindForm4FilingNear(rc, trade_date, filing_date_hint, max_days) ==
    LET cands == Candidates(rc)
    IN  IF cands = <<>> THEN NoFiling
        ELSE LET best == BestCandidate(cands, trade_date, filing_date_hint)
                 target == MatchTarget(trade_date, filing_date_hint)
             IN  IF target # NoDate /\ best.filing_date # NoDate
                 THEN IF Abs(best.filing_date - target) <= max_days THEN best
                      ELSE best
                 ELSE best

----------------------------------------------------------------------------
(* The filing matcher on its own: a submissions list is drawn, and           *)
(* find_form4_filing_near is applied to it.                                  *)

EmptyRecent == [form |-> <<>>, filingDate |-> <<>>, accessionNumber |-> <<>>, primaryDocument |-> <<>>]

\* One row of the four parallel lists.
FilingEntries ==
    [form : {"4"}, date : OptDays, acc : {"ACC"}]
    \cup [form : {"4/A", "10-K", NoStr}, date : {2}, acc : {"ACC"}]
    \cup [form : {"4"}, date : {2}, acc : {NoStr}]

\* Accession numbers are unique per entry.
AccOf(i) == CASE i = 1 -> "0000320193-25-000001"
              [] i = 2 -> "0000320193-25-000002"
              [] i = 3 -> "0000320193-25-000003"
              [] OTHER -> "0000320193-25-000004"

\* The four parallel lists of the entries es; primaryDocument is one short
\* when cut = 1, so that the last entry is never looked at.
RecentOf(es, cut) ==
    [form |-> [i \in 1..Len(es) |-> es[i].form],
     filingDate |-> [i \in 1..Len(es) |-> es[i].date],
     accessionNumber |-> [i \in 1..Len(es) |-> IF es[i].acc = NoStr THEN NoStr ELSE AccOf(i)],
     primaryDocument |-> [i \in 1..(IF Len(es) > cut THEN Len(es) - cut ELSE 0) |-> "form4.xml"]]

EntryLists == UNION {[1..n -> FilingEntries] : n \in 0..MaxFilings}

MatchRecents == {RecentOf(es, cut) : es \in EntryLists, cut \in {0, 1}}

MaxDaysValues == {0, 1, DefaultMaxDays}

NoQuery == [trade_date |-> NoDate, filing_date_hint |-> NoDate, max_days |-> 0]

InitMatch ==
    /\ pc = "match"
    /\ pass = 1
    /\ recent \in MatchRecents
    /\ subsOk = TRUE
    /\ records = <<>> /\ raw = <<>> /\ matched = <<>> /\ raised = 0
    /\ dedup = <<>> /\ groups = <<>> /\ keep_rows = <<>> /\ out = <<>> /\ out1 = <<>>
    /\ query = NoQuery /\ found = NoFiling
    /\ fpArgs = <<>> /\ fpIds = <<>>
    /\ TradesIdle
    /\ PermIdle

\* One call find_form4_filing_near(cik10, trade_date, filing_date_hint, max_days).
FindFiling(trade_date, filing_date_hint, max_days) ==
    /\ pc = "match"
    /\ pc' = "matched"
    /\ query' = [trade_date |-> trade_date, filing_date_hint |-> filing_date_hint,
                 max_days |-> max_days]
    /\ found' = FindForm4FilingNear(recent, trade_date, filing_date_hint, max_days)
    /\ UNCHANGED <<pass, recent, subsOk, records, raw, matched, raised,
                   dedup, groups, keep_rows, out, out1, fpArgs, fpIds>>
    /\ UNCHANGED tradeVars
    /\ UNCHANGED permVars

NextMatch ==
    \E td \in OptDays, hint \in OptDays, m \in MaxDaysValues : FindFiling(td, hint, m)

SpecMatch == InitMatch /\ [][NextMatch]_vars

\* The qualifying filings of the drawn list, in list order.
Qualifying == Candidates(recent)

QueryTarget == MatchTarget(query.trade_date, query.filing_date_hint)

\* Distance of a dated candidate to the target of the last query.
Dist(f) == Abs(f.filing_date - QueryTarget)

\* The dated candidates at the least distance from the target, as positions.
Nearest ==
    {i \in 1..Len(Qualifying) :
        /\ Qualifying[i].filing_date # NoDate
        /\ \A j \in 1..Len(Qualifying) :
              Qualifying[j].filing_date # NoDate => Dist(Qualifying[i]) <= Dist(Qualifying[j])}

\* Two nearest candidates with different filing dates exist: a tie.
TieExists ==
    /\ pc = "matched"
    /\ QueryTarget # NoDate
    /\ \E i, j \in Nearest : Qualifying[i].filing_date < Qualifying[j].filing_date

\* C4 (as stated): of two qualifying filings equally distant from the target,
\* the one with the later filing_date is returned, whatever their list order.
C4_LaterOfTieReturned ==
    TieExists => \A i \in Nearest : found.filing_date >= Qualifying[i].filing_date

\* C4 (amended): of the qualifying filings equally distant from the target,
\* the one that comes first in the submissions list is returned.
C4_FirstListedOfTieReturned ==
    (pc = "matched" /\ QueryTarget # NoDate /\ Nearest # {}) =>
        \E i \in Nearest :
            /\ found = Qualifying[i]
            /\ \A j \in Nearest : i <= j

\* A tie in which the earlier filing is listed first, and it was returned.
C4_Witness ==
    /\ TieExists
    /\ \E i, j \in Nearest :
          /\ i < j
          /\ Qualifying[i].filing_date < Qualifying[j].filing_date
          /\ found = Qualifying[i]

\* C5: when a qualifying filing exists, a filing is returned, never none, and
\* it is the filing every other max_days would have returned.
C5_AlwaysBestCandidate ==
    (pc = "matched" /\ Len(Qualifying) > 0) =>
        /\ found # NoFiling
        /\ \A m \in MaxDaysValues :
              found = FindForm4FilingNear(recent, query.trade_date, query.filing_date_hint, m)
        /\ found = BestCandidate(Qualifying, query.trade_date, query.filing_date_hint)

\* A filing farther from the target than max_days was returned.
C5_Witness ==
    /\ pc = "matched"
    /\ found # NoFiling
    /\ found.filing_date # NoDate
    /\ QueryTarget # NoDate
    /\ Dist(found) > query.max_days

\* C20: given a target (filing_date_hint if present, else trade_date) and at
\* least one qualifying filing, the filing returned is a qualifying filing; if
\* it is dated, no dated qualifying filing is nearer to the target; and it is
\* undated only when no qualifying filing is dated.
C20_NearestToTarget ==
    (pc = "matched" /\ QueryTarget # NoDate /\ Len(Qualifying) > 0) =>
        /\ \E i \in 1..Len(Qualifying) : found = Qualifying[i]
        /\ found.filing_date # NoDate =>
              \A j \in 1..Len(Qualifying) :
                  Qualifying[j].filing_date # NoDate => Dist(found) <= Dist(Qualifying[j])
        /\ found.filing_date = NoDate =>
              \A j \in 1..Len(Qualifying) : Qualifying[j].filing_date = NoDate

\* An undated filing is listed before a dated one that is not on the target
\* day; the target is the hint, not the trade date; the dated one was returned.
C20_Witness ==
    /\ pc = "matched"
    /\ query.filing_date_hint # NoDate
    /\ query.trade_date # NoDate
    /\ query.trade_date # query.filing_date_hint
    /\ Len(Qualifying) = 2
    /\ Qualifying[1].filing_date = NoDate
    /\ Qualifying[2].filing_date # NoDate
    /\ found = Qualifying[2]
    /\ Dist(found) > 0

----------------------------------------------------------------------------
(* merge.py: sha1_event_id (sources/openinsider.py and sources/secform4.py   *)
(* carry the same function as _event_id)                                     *)

\* "{x or ''}" for a str | None: None and the empty string both give ''.
StrOrEmpty(x) == IF x = NoStr \/ x = "" THEN "" ELSE x

\* "{trade_date.isoformat() if trade_date else ''}": a date is always truthy;
\* the text is <<d>> for a date and <<>> for ''.
IsoOrEmpty(d) == IF d = NoDate THEN <<>> ELSE <<d>>

\* "{x or ''}" for a float | None: None and 0.0 are both falsy and give '';
\* any other float gives its repr, which is different for different floats.
NumOrEmpty(x) == IF x = NoNum \/ x = 0 THEN <<>> ELSE <<x>>

\* The text of a ticker in upper case.
UpperTicker(t) == IF t = "acme" THEN "ACME" ELSE t

\* A key whose ticker part is upper-cased.
EventKeyUpperTicker(ticker, insider, trade_date, shares, price, txn_type, source) ==
    <<UpperTicker(ticker), StrOrEmpty(insider), IsoOrEmpty(trade_date), NumOrEmpty(shares),
      NumOrEmpty(price), txn_type, source>>

\* The pipe-joined key string, as the tuple of its seven parts.
EventKey(ticker, insider, trade_date, shares, price, txn_type, source) ==
    <<ticker, StrOrEmpty(insider), IsoOrEmpty(trade_date), NumOrEmpty(shares),
      NumOrEmpty(price), txn_type, source>>

\* hashlib.sha1(key).hexdigest(): different keys give different digests.
Sha1(key) == <<"sha1", key>>

Sha1EventId(ticker, insider, trade_date, shares, price, txn_type, source) ==
    Sha1(EventKey(ticker, insider, trade_date, shares, price, txn_type, source))

----------------------------------------------------------------------------
(* The fingerprint on its own: two argument tuples that differ in at most    *)
(* one argument are drawn and sha1_event_id is applied to both.              *)

FpTickers == {"ACME", "acme"}
FpInsiders == {NoStr, "", "Smith Jane", "smith jane"}
FpShares == {NoNum, 0, 10000}
FpPrices == {NoNum, 0, 10}
FpTxnTypes == {"Buy", "Other"}
FpSources == {"openinsider", "secform4"}

FpArgTuples ==
    [ticker : FpTickers, insider : FpInsiders, trade_date : OptDays, shares : FpShares,
     price : FpPrices, txn_type : FpTxnTypes, source : FpSources]

\* The six arguments the fingerprint has to tell apart.
FpFields == {"ticker", "insider", "trade_date", "shares", "price", "txn_type"}

FpDiff(a, b) ==
    {f \in FpFields :
        \/ f = "ticker" /\ a.ticker # b.ticker
        \/ f = "insider" /\ a.insider # b.insider
        \/ f = "trade_date" /\ a.trade_date # b.trade_date
        \/ f = "shares" /\ a.shares # b.shares
        \/ f = "price" /\ a.price # b.price
        \/ f = "txn_type" /\ a.txn_type # b.txn_type}

InitFp ==
    /\ pc = "fp"
    /\ pass = 1
    /\ recent = EmptyRecent
    /\ subsOk = TRUE
    /\ records = <<>> /\ raw = <<>> /\ matched = <<>> /\ raised = 0
    /\ dedup = <<>> /\ groups = <<>> /\ keep_rows = <<>> /\ out = <<>> /\ out1 = <<>>
    /\ query = NoQuery /\ found = NoFiling
    /\ fpArgs \in {<<a>> : a \in FpArgTuples}
    /\ fpIds = <<>>
    /\ TradesIdle
    /\ PermIdle

\* sha1_event_id applied to the drawn arguments and to b.
Fingerprint(b) ==
    /\ pc = "fp"
    /\ pc' = "fpdone"
    /\ b.source = fpArgs[1].source
    /\ Cardinality(FpDiff(fpArgs[1], b)) <= 1
    /\ fpArgs' = <<fpArgs[1], b>>
    /\ fpIds' = <<Sha1EventId(fpArgs[1].ticker, fpArgs[1].insider, fpArgs[1].trade_date,
                              fpArgs[1].shares, fpArgs[1].price, fpArgs[1].txn_type,
                              fpArgs[1].source),
                  Sha1EventId(b.ticker, b.insider, b.trade_date, b.shares, b.price,
                              b.txn_type, b.source)>>
    /\ UNCHANGED <<pass, recent, subsOk, records, raw, matched, raised,
                   dedup, groups, keep_rows, out, out1, query, found>>
    /\ UNCHANGED tradeVars
    /\ UNCHANGED permVars

NextFp == \E b \in FpArgTuples : Fingerprint(b)

SpecFp == InitFp /\ [][NextFp]_vars

\* C10: the fingerprint is the same for the same arguments, and two argument
\* tuples that differ in exactly one of ticker, insider, trade_date, shares,
\* price and txn_type get different fingerprints.
C10_SingleFieldChangeChangesId ==
    pc = "fpdone" =>
        /\ Cardinality(FpDiff(fpArgs[1], fpArgs[2])) = 0 => fpIds[1] = fpIds[2]
        /\ Cardinality(FpDiff(fpArgs[1], fpArgs[2])) = 1 => fpIds[1] # fpIds[2]

----------------------------------------------------------------------------
(* Links.  A sec_link is None (NoLink), a scraped URL <<url>>, or a URL that  *)
(* enrich_sec_links formats, kept as the tuple of the f-string's parts.       *)

SEC_DATA_BASE == "https://data.sec.gov"
SEC_WWW_BASE == "https://www.sec.gov"

NoLink == <<>>
OtherLink == <<"http://openinsider.com/insider/Smith-Jane/1234567">>
ArchiveLink == <<"https://www.sec.gov/Archives/edgar/data/320193/000032019325000009/xslF345X05/form4.xml">>

\* (r.sec_link or "").strip() is empty
BlankLink(l) == l = NoLink \/ l = <<"">> \/ l = <<" ">>

\* accession_no.replace("-", "")
NoDashes(acc) == CASE acc = "0000320193-25-000001" -> "000032019325000001"
                   [] acc = "0000320193-25-000002" -> "000032019325000002"
                   [] acc = "0000320193-25-000003" -> "000032019325000003"
                   [] OTHER -> "000032019325000004"

\* str(int(cik10))
IntText(cik10) == CASE cik10 = Cik10 -> CikInt [] OTHER -> cik10

\* build_filing_index_url
BuildFilingIndexUrl(cik10, accession_no) ==
    <<SEC_WWW_BASE, "/Archives/edgar/data/", IntText(cik10), "/", NoDashes(accession_no), "/",
      accession_no, "-index.html">>

\* f"https://data.sec.gov/submissions/CIK{cik10}.json"
SubmissionsLandingUrl(cik10) == <<"https://data.sec.gov/submissions/CIK", cik10, ".json">>

\* "sec.gov/Archives/" in sec_link
HasArchivePath(l) ==
    \/ l = ArchiveLink
    \/ Len(l) = 8 /\ l[1] = SEC_WWW_BASE /\ l[2] = "/Archives/edgar/data/"

\* sec_link matches "sec.gov", case-insensitively
HasSecGov(l) ==
    \/ HasArchivePath(l)
    \/ Len(l) = 3 /\ l[1] = "https://data.sec.gov/submissions/CIK"

----------------------------------------------------------------------------
(* sources/sec_edgar.py: the ticker table *)

\* ticker.upper().strip()
UpperStrip(t) == CASE t = "acme" -> "ACME" [] t = "zzz" -> "ZZZ" [] OTHER -> t

\* get_company_tickers_map(): one registered company, and one entry that has
\* a title but no cik_str.
CompanyTickers ==
    [t \in {"ACME", "NOCIK"} |->
        IF t = "ACME" THEN [cik_str |-> 320193, title |-> "Acme Corp"]
        ELSE [cik_str |-> NoNum, title |-> "Nocik Ltd"]]

\* str(cik_num).zfill(10)
Zfill10(n) == CASE n = 320193 -> Cik10 [] OTHER -> "0000000000"

\* ticker_to_cik: (cik10, title), each NoStr for None
TickerToCik(ticker) ==
    IF UpperStrip(ticker) \notin DOMAIN CompanyTickers THEN <<NoStr, NoStr>>
    ELSE LET v == CompanyTickers[UpperStrip(ticker)]
         IN  IF v.cik_str = NoNum THEN <<NoStr, v.title>>
             ELSE <<Zfill10(v.cik_str), v.title>>

----------------------------------------------------------------------------
(* models.py: TransactionRecord *)

TransactionRecord(ticker, company_name, insider_name, role_relation, transaction_type, trade_date, filing_date, shares, price, value_usd, sec_link, source, source_url, confidence, event_id) ==
    [ticker |-> ticker, company_name |-> company_name, insider_name |-> insider_name,
     role_relation |-> role_relation, transaction_type |-> transaction_type,
     trade_date |-> trade_date, filing_date |-> filing_date, shares |-> shares,
     price |-> price, value_usd |-> value_usd, sec_link |-> sec_link, source |-> source,
     source_url |-> source_url, confidence |-> confidence, event_id |-> event_id]

\* The record fetch_openinsider builds from one table row.
OpenInsiderRecord(ticker, company, insider, role, txn, td, fd, shares, price, value, link) ==
    TransactionRecord(ticker, company, insider, role, txn, td, fd, shares, price, value, link,
        "openinsider", "https://openinsider.com/screener",
        IF link = NoLink THEN "LOW" ELSE "HIGH",
        Sha1EventId(ticker, insider, td, shares, price, txn, "openinsider"))

\* The record fetch_secform4 builds from one table row.
SecForm4Record(ticker, company, insider, role, txn, td, fd, shares, price, value) ==
    TransactionRecord(ticker, company, insider, role, txn, td, fd, shares, price, value, NoLink,
        "secform4", "https://secform4.com/insider-trading",
        "LOW",
        Sha1EventId(ticker, insider, td, shares, price, txn, "secform4"))

----------------------------------------------------------------------------
(* cli.py: enrich_sec_links *)

\* Lines 83-88: the confidence of a record whose filing was matched, from
\* target = r.filing_date or r.trade_date and the filing's date.
MatchConfidenceFarIsLow(target, filing_date) ==
    IF target # NoDate /\ filing_date # NoDate
    THEN (IF Abs(filing_date - target) <= 2 THEN "HIGH" ELSE "LOW")
    ELSE "LOW"

MatchConfidenceWithinThree(target, filing_date) ==
    IF target # NoDate /\ filing_date # NoDate
    THEN (IF Abs(filing_date - target) <= 3 THEN "HIGH" ELSE "MED")
    ELSE "MED"

MatchConfidence(target, filing_date) ==
    IF target # NoDate /\ filing_date # NoDate
    THEN (IF Abs(filing_date - target) <= 2 THEN "HIGH" ELSE "MED")
    ELSE "MED"

\* Lines 70-76 with the link cleared whatever it held.
NoCikOutcomeCleared(r) ==
    [r EXCEPT !.sec_link = NoLink, !.confidence = "LOW"]

\* Lines 70-76 with the filing date dropped along the way.
NoCikOutcomeDropsFilingDate(r) ==
    [r EXCEPT !.sec_link = IF BlankLink(@) THEN NoLink ELSE @, !.confidence = "LOW",
              !.filing_date = NoDate]

\* Lines 70-76: the record of a ticker without a CIK; a blank link becomes
\* None, any other link stays.
NoCikOutcome(r) ==
    [r EXCEPT !.sec_link = IF BlankLink(@) THEN NoLink ELSE @, !.confidence = "LOW"]

\* An iteration that looks at the archive link last: a record of a ticker
\* with a CIK is matched against the filings whatever link it carries.
EnrichRecordArchiveLast(r, rc, ok) ==
    LET ct == TickerToCik(r.ticker)
        cik10 == ct[1]
        title == ct[2]
        r1 == IF r.company_name = NoStr /\ title # NoStr
              THEN [r EXCEPT !.company_name = title] ELSE r
        filing == FindForm4FilingNear(rc, r.trade_date, r.filing_date, DefaultMaxDays)
        target == IF r1.filing_date # NoDate THEN r1.filing_date ELSE r1.trade_date
        r2 == [r1 EXCEPT !.sec_link = BuildFilingIndexUrl(cik10, filing.accession_no),
                         !.confidence = MatchConfidence(target, filing.filing_date)]
        archive == ~BlankLink(r.sec_link) /\ HasArchivePath(r.sec_link)
    IN  IF cik10 = NoStr
        THEN [rec |-> IF archive THEN [r EXCEPT !.confidence = "HIGH"] ELSE NoCikOutcome(r1),
              filing |-> NoFiling, exc |-> FALSE]
        ELSE IF ~ok
        THEN [rec |-> r1, filing |-> NoFiling, exc |-> TRUE]
        ELSE IF filing # NoFiling
        THEN [rec |-> IF r2.filing_date = NoDate /\ filing.filing_date # NoDate
                      THEN [r2 EXCEPT !.filing_date = filing.filing_date] ELSE r2,
              filing |-> filing, exc |-> FALSE]
        ELSE IF archive
        THEN [rec |-> [r EXCEPT !.confidence = "HIGH"], filing |-> NoFiling, exc |-> FALSE]
        ELSE [rec |-> [r1 EXCEPT !.sec_link = SubmissionsLandingUrl(cik10),
                                 !.confidence = "LOW"],
              filing |-> NoFiling, exc |-> FALSE]

\* One iteration of the loop over records.  The result is the record as the
\* iteration leaves it, the filing find_form4_filing_near returned (NoFiling
\* when it was not called or returned None), and whether the iteration
\* raised: get_submissions raises when the submissions cannot be fetched,
\* after company_name was already assigned.
EnrichRecord(r, rc, ok) ==
    LET ct == TickerToCik(r.ticker)
        cik10 == ct[1]
        title == ct[2]
        r1 == IF r.company_name = NoStr /\ title # NoStr
              THEN [r EXCEPT !.company_name = title] ELSE r
        filing == FindForm4FilingNear(rc, r.trade_date, r.filing_date, DefaultMaxDays)
        target == IF r1.filing_date # NoDate THEN r1.filing_date ELSE r1.trade_date
        r2 == [r1 EXCEPT !.sec_link = BuildFilingIndexUrl(cik10, filing.accession_no),
                         !.confidence = MatchConfidence(target, filing.filing_date)]
    IN  IF ~BlankLink(r.sec_link) /\ HasArchivePath(r.sec_link)
        THEN [rec |-> [r EXCEPT !.confidence = "HIGH"], filing |-> NoFiling, exc |-> FALSE]
        ELSE IF cik10 = NoStr
        THEN [rec |-> NoCikOutcome(r1), filing |-> NoFiling, exc |-> FALSE]
        ELSE IF ~ok
        THEN [rec |-> r1, filing |-> NoFiling, exc |-> TRUE]
        ELSE IF filing # NoFiling
        THEN [rec |-> IF r2.filing_date = NoDate /\ filing.filing_date # NoDate
                      THEN [r2 EXCEPT !.filing_date = filing.filing_date] ELSE r2,
              filing |-> filing, exc |-> FALSE]
        ELSE [rec |-> [r1 EXCEPT !.sec_link = SubmissionsLandingUrl(cik10),
                                 !.confidence = "LOW"],
              filing |-> NoFiling, exc |-> FALSE]

\* The loop over records, every iteration taken on its own.
Iterations(rs, rc, ok) == AsTuple([i \in 1..Len(rs) |-> EnrichRecord(rs[i], rc, ok)])

\* Index of the first record whose iteration raises, 0 if none does.
FirstRaise(rs, rc, ok) ==
    LET it == Iterations(rs, rc, ok)
    IN  IF \E i \in 1..Len(rs) : it[i].exc
        THEN CHOOSE i \in 1..Len(rs) : it[i].exc /\ \A j \in 1..(i - 1) : ~it[j].exc
        ELSE 0

\* An enrichment that works on copies: when it raises, the list the caller
\* holds is as it was passed in.
EnrichSecLinksOnCopies(rs, rc, ok) ==
    LET it == Iterations(rs, rc, ok)
        k == FirstRaise(rs, rc, ok)
    IN  IF k = 0 THEN AsTuple([i \in 1..Len(rs) |-> it[i].rec]) ELSE rs

\* The records are changed in place, so the list the caller holds is the
\* same whether enrich_sec_links returns it or raises part-way: every record
\* up to the raising one is as its iteration left it, the rest are untouched.
EnrichSecLinks(rs, rc, ok) ==
    LET it == Iterations(rs, rc, ok)
        k == FirstRaise(rs, rc, ok)
    IN  AsTuple([i \in 1..Len(rs) |-> IF k = 0 \/ i <= k THEN it[i].rec ELSE rs[i]])

\* The filing each iteration got from find_form4_filing_near.
MatchedFilings(rs, rc, ok) ==
    LET it == Iterations(rs, rc, ok)
        k == FirstRaise(rs, rc, ok)
    IN  AsTuple([i \in 1..Len(rs) |-> IF k = 0 \/ i < k THEN it[i].filing ELSE NoFiling])

----------------------------------------------------------------------------
(* merge.py: records_to_df and merge_and_dedupe *)

\* to_dict: a date becomes its ISO text (<<d>>), None stays None (<<>>).
ToDictDate(d) == IF d # NoDate THEN <<d>> ELSE <<>>

\* pd.to_datetime(..., errors="coerce").dt.date: the date of the text, NaT for None.
ToDatetimeDate(x) == IF x = <<>> THEN NoDate ELSE x[1]

\* records_to_df that leaves out the records without a ticker or a name.
RecordsToDfRejecting(rs) ==
    LET WellFormed(r) == r.ticker # "" /\ r.insider_name # NoStr
        ok == SelectSeq(rs, WellFormed)
    IN  AsTuple([i \in 1..Len(ok) |->
            [ok[i] EXCEPT !.trade_date = ToDatetimeDate(ToDictDate(@)),
                          !.filing_date = ToDatetimeDate(ToDictDate(@))]])

\* records_to_df: one row per record, the dates through to_dict and to_datetime.
RecordsToDf(rs) ==
    AsTuple([i \in 1..Len(rs) |->
        [rs[i] EXCEPT !.trade_date = ToDatetimeDate(ToDictDate(@)),
                      !.filing_date = ToDatetimeDate(ToDictDate(@))]])

\* _confidence_rank
ConfidenceRank(x) ==
    CASE x = "HIGH" -> 3 [] x = "MED" -> 2 [] x = "LOW" -> 1 [] OTHER -> 0

\* df["_conf"], df["_has_sec"]
ConfCol(row) == ConfidenceRank(row.confidence)
HasSecCol(row) == IF HasSecGov(row.sec_link) THEN 1 ELSE 0

\* norm_insider after fillna(""): strip, lower-case, single spaces
NormInsider(x) ==
    CASE x = NoStr -> ""
      [] x = "" -> ""
      [] x = "Smith Jane" -> "smith jane"
      [] x = "smith  jane" -> "smith jane"
      [] x = "SMITH JANE " -> "smith jane"
      [] x = "Doe John" -> "doe john"
      [] OTHER -> x

\* df["shares"] rounded to the nearest ten shares
SharesRoundedToTen(x) ==
    IF x = NoNum THEN NoNum
    ELSE LET q == x \div 100
             t == x % 100
         IN  IF t < 50 THEN 10 * q
             ELSE IF t > 50 THEN 10 * (q + 1)
             ELSE IF q % 2 = 0 THEN 10 * q ELSE 10 * (q + 1)

\* df["_shares_r"] = df["shares"].round(0): to the nearest whole share, a
\* half to the even neighbour; shares come in tenths, the result in shares.
SharesRounded(x) ==
    IF x = NoNum THEN NoNum
    ELSE LET q == x \div 10
             t == x % 10
         IN  IF t < 5 THEN q
             ELSE IF t > 5 THEN q + 1
             ELSE IF q % 2 = 0 THEN q ELSE q + 1

\* Position of a string in the order Python (and so groupby's sorted keys)
\* gives the strings of the model.
StrRank(x) ==
    CASE x = "" -> 0
      [] x = "ACME" -> 1
      [] x = "NOCIK" -> 2
      [] x = "ZZZ" -> 3
      [] x = "acme" -> 4
      [] x = "doe john" -> 5
      [] x = "smith jane" -> 6
      [] OTHER -> 7

\* The positions of a set of integers, ascending.
SeqOfSet(S) ==
    AsTuple([p \in 1..Cardinality(S) |-> CHOOSE x \in S : Cardinality({y \in S : y < x}) = p - 1])

\* An exact pass without the sort: of the rows of one event_id the first of
\* the frame is kept.
ExactDedupeInFrameOrder(df) ==
    LET n == Len(df)
        kept == {p \in 1..n : \A q \in 1..(p - 1) : df[q].event_id # df[p].event_id}
        ks == SeqOfSet(kept)
    IN  AsTuple([p \in 1..Len(ks) |-> df[ks[p]]])

\* An exact pass that sorts and drops nothing.
ExactDedupeKeepsAll(df) ==
    LET n == Len(df)
        ord == StableOrder(n, [i \in 1..n |-> <<-ConfCol(df[i]), -HasSecCol(df[i])>>])
    IN  AsTuple([p \in 1..n |-> df[ord[p]]])

\* Step 1: sort by [_conf, _has_sec] descending, then drop_duplicates on
\* event_id keeping the first.
ExactDedupe(df) ==
    LET n == Len(df)
        ord == StableOrder(n, [i \in 1..n |-> <<-ConfCol(df[i]), -HasSecCol(df[i])>>])
        sorted == AsTuple([p \in 1..n |-> df[ord[p]]])
        kept == {p \in 1..n : \A q \in 1..(p - 1) : sorted[q].event_id # sorted[p].event_id}
        ks == SeqOfSet(kept)
    IN  AsTuple([p \in 1..Len(ks) |-> sorted[ks[p]]])

\* The groupby key ["ticker", "_ins", "_shares_r"] as an integer tuple that
\* sorts as the key does; dropna=False keeps NaN shares as a key, sorted last.
GroupKey(row) ==
    <<StrRank(row.ticker), StrRank(NormInsider(row.insider_name)),
      IF row.shares = NoNum THEN 1 ELSE 0, SharesRounded(row.shares)>>

\* The positions of one group as they stand in the frame, not sorted.
GroupInFrameOrder(df, key) ==
    SeqOfSet({i \in 1..Len(df) : GroupKey(df[i]) = key})

\* g.sort_values(["_td", "_conf"], ascending=[True, False]): the positions of
\* one group, by trade date (NaT last), then confidence descending.
GroupSorted(df, key) ==
    LET mem == SeqOfSet({i \in 1..Len(df) : GroupKey(df[i]) = key})
        m == Len(mem)
        ord == StableOrder(m, [p \in 1..m |->
                   <<IF df[mem[p]].trade_date = NoDate THEN 1 ELSE 0,
                     df[mem[p]].trade_date, -ConfCol(df[mem[p]])>>])
    IN  AsTuple([p \in 1..m |-> mem[ord[p]]])

\* The walk over one sorted group: every not yet used position starts a
\* bucket and takes each later unused position whose trade date is within
\* window days of its own, both dates present.
RECURSIVE AnchorWalkWithin(_, _, _, _, _)
AnchorWalkWithin(df, idxs, i, used, window) ==
    IF i > Len(idxs) THEN <<>>
    ELSE IF i \in used THEN AnchorWalkWithin(df, idxs, i + 1, used, window)
    ELSE LET td_i == df[idxs[i]].trade_date
             taken == {j \in (i + 1)..Len(idxs) :
                          /\ j \notin used
                          /\ td_i # NoDate
                          /\ df[idxs[j]].trade_date # NoDate
                          /\ Abs(df[idxs[j]].trade_date - td_i) <= window}
             tk == SeqOfSet(taken)
             bucket == <<idxs[i]>> \o [p \in 1..Len(tk) |-> idxs[tk[p]]]
         IN  <<bucket>> \o AnchorWalkWithin(df, idxs, i + 1, used \cup {i} \cup taken, window)

\* A walk whose buckets grow through a chain: a later unused position is
\* taken when its trade date is within a day of the date of the position
\* taken last.
RECURSIVE ChainTaken(_, _, _, _, _)
ChainTaken(df, idxs, j, last, used) ==
    IF j > Len(idxs) THEN {}
    ELSE IF /\ j \notin used
            /\ last # NoDate
            /\ df[idxs[j]].trade_date # NoDate
            /\ Abs(df[idxs[j]].trade_date - last) <= 1
         THEN {j} \cup ChainTaken(df, idxs, j + 1, df[idxs[j]].trade_date, used)
         ELSE ChainTaken(df, idxs, j + 1, last, used)

RECURSIVE AnchorWalkChainedFrom(_, _, _, _)
AnchorWalkChainedFrom(df, idxs, i, used) ==
    IF i > Len(idxs) THEN <<>>
    ELSE IF i \in used THEN AnchorWalkChainedFrom(df, idxs, i + 1, used)
    ELSE LET taken == ChainTaken(df, idxs, i + 1, df[idxs[i]].trade_date, used)
             tk == SeqOfSet(taken)
             bucket == <<idxs[i]>> \o [p \in 1..Len(tk) |-> idxs[tk[p]]]
         IN  <<bucket>> \o AnchorWalkChainedFrom(df, idxs, i + 1, used \cup {i} \cup taken)

AnchorWalkChained(df, idxs) == AnchorWalkChainedFrom(df, idxs, 1, {})

\* A walk that also takes an undated position into the bucket of an undated
\* anchor.
RECURSIVE AnchorWalkUndatedFrom(_, _, _, _)
AnchorWalkUndatedFrom(df, idxs, i, used) ==
    IF i > Len(idxs) THEN <<>>
    ELSE IF i \in used THEN AnchorWalkUndatedFrom(df, idxs, i + 1, used)
    ELSE LET td_i == df[idxs[i]].trade_date
             taken == {j \in (i + 1)..Len(idxs) :
                          /\ j \notin used
                          /\ \/ td_i = NoDate /\ df[idxs[j]].trade_date = NoDate
                             \/ /\ td_i # NoDate
                                /\ df[idxs[j]].trade_date # NoDate
                                /\ Abs(df[idxs[j]].trade_date - td_i) <= 1}
             tk == SeqOfSet(taken)
             bucket == <<idxs[i]>> \o [p \in 1..Len(tk) |-> idxs[tk[p]]]
         IN  <<bucket>> \o AnchorWalkUndatedFrom(df, idxs, i + 1, used \cup {i} \cup taken)

AnchorWalkUndatedTogether(df, idxs) == AnchorWalkUndatedFrom(df, idxs, 1, {})

\* A walk that does not mark the positions it takes: a taken position
\* starts a bucket of its own later on.
RECURSIVE AnchorWalkUnmarkedFrom(_, _, _)
AnchorWalkUnmarkedFrom(df, idxs, i) ==
    IF i > Len(idxs) THEN <<>>
    ELSE LET td_i == df[idxs[i]].trade_date
             taken == {j \in (i + 1)..Len(idxs) :
                          /\ td_i # NoDate
                          /\ df[idxs[j]].trade_date # NoDate
                          /\ Abs(df[idxs[j]].trade_date - td_i) <= 1}
             tk == SeqOfSet(taken)
             bucket == <<idxs[i]>> \o [p \in 1..Len(tk) |-> idxs[tk[p]]]
         IN  <<bucket>> \o AnchorWalkUnmarkedFrom(df, idxs, i + 1)

AnchorWalkUnmarked(df, idxs) == AnchorWalkUnmarkedFrom(df, idxs, 1)

AnchorWalk(df, idxs) == AnchorWalkWithin(df, idxs, 1, {}, 1)

\* The keys of the groups, in groupby's sorted order.
GroupKeys(df) ==
    LET S == {GroupKey(df[i]) : i \in 1..Len(df)}
    IN  AsTuple([p \in 1..Cardinality(S) |->
            CHOOSE k \in S : Cardinality({j \in S : LexLess(j, k)}) = p - 1])

RECURSIVE BucketsFrom(_, _, _)
BucketsFrom(df, keys, g) ==
    IF g > Len(keys) THEN <<>>
    ELSE AnchorWalk(df, GroupSorted(df, keys[g])) \o BucketsFrom(df, keys, g + 1)

\* Step 2: the list "groups" of buckets.
FuzzyGroups(df) == BucketsFrom(df, GroupKeys(df), 1)

\* A fill in which r's value, when r has one, replaces the value of base.
FillFromOverwrites(base, r) ==
    LET filled ==
            [base EXCEPT
                !.company_name = IF r.company_name # NoStr THEN r.company_name ELSE @,
                !.role_relation = IF r.role_relation # NoStr THEN r.role_relation ELSE @,
                !.transaction_type = IF r.transaction_type # NoStr THEN r.transaction_type ELSE @,
                !.trade_date = IF r.trade_date # NoDate THEN r.trade_date ELSE @,
                !.filing_date = IF r.filing_date # NoDate THEN r.filing_date ELSE @,
                !.shares = IF r.shares # NoNum THEN r.shares ELSE @,
                !.price = IF r.price # NoNum THEN r.price ELSE @,
                !.value_usd = IF r.value_usd # NoNum THEN r.value_usd ELSE @,
                !.sec_link = IF r.sec_link # NoLink THEN r.sec_link ELSE @,
                !.source_url = IF r.source_url # NoStr THEN r.source_url ELSE @]
    IN  IF ConfidenceRank(r.confidence) > ConfidenceRank(base.confidence)
        THEN [filled EXCEPT !.confidence = r.confidence]
        ELSE filled

\* The fill of one row r into base: each listed column that is missing in
\* base takes r's value; then the confidence is raised if r's ranks higher.
FillFrom(base, r) ==
    LET filled ==
            [base EXCEPT
                !.company_name = IF @ = NoStr THEN r.company_name ELSE @,
                !.role_relation = IF @ = NoStr THEN r.role_relation ELSE @,
                !.transaction_type = IF @ = NoStr THEN r.transaction_type ELSE @,
                !.trade_date = IF @ = NoDate THEN r.trade_date ELSE @,
                !.filing_date = IF @ = NoDate THEN r.filing_date ELSE @,
                !.shares = IF @ = NoNum THEN r.shares ELSE @,
                !.price = IF @ = NoNum THEN r.price ELSE @,
                !.value_usd = IF @ = NoNum THEN r.value_usd ELSE @,
                !.sec_link = IF @ = NoLink THEN r.sec_link ELSE @,
                !.source_url = IF @ = NoStr THEN r.source_url ELSE @]
    IN  IF ConfidenceRank(r.confidence) > ConfidenceRank(base.confidence)
        THEN [filled EXCEPT !.confidence = r.confidence]
        ELSE filled

RECURSIVE FillAll(_, _, _)
FillAll(base, sub, i) ==
    IF i > Len(sub) THEN base ELSE FillAll(FillFrom(base, sub[i]), sub, i + 1)

\* A merge that takes the bucket's first row (its anchor) as the base and
\* fills it without looking at the confidence of the others.
MergeBucketAnchorBase(df, bucket) ==
    LET sub == AsTuple([p \in 1..Len(bucket) |-> df[bucket[p]]])
        NoRaise(r) == [r EXCEPT !.confidence = sub[1].confidence]
    IN  FillAll(sub[1], AsTuple([p \in 1..Len(sub) |-> NoRaise(sub[p])]), 2)

\* A merge whose result takes over the source of the last row filled in.
MergeBucketSourceOfLast(df, bucket) ==
    LET m == Len(bucket)
        ord == StableOrder(m, [p \in 1..m |->
                   <<-ConfCol(df[bucket[p]]), -HasSecCol(df[bucket[p]])>>])
        sub == AsTuple([p \in 1..m |-> df[bucket[ord[p]]]])
    IN  [FillAll(sub[1], sub, 2) EXCEPT !.source = sub[m].source]

\* The merge of one bucket: the rows sorted by [_conf, _has_sec] descending,
\* the first as base, the others filled in, in that order.
MergeBucket(df, bucket) ==
    LET m == Len(bucket)
        ord == StableOrder(m, [p \in 1..m |->
                   <<-ConfCol(df[bucket[p]]), -HasSecCol(df[bucket[p]])>>])
        sub == AsTuple([p \in 1..m |-> df[bucket[ord[p]]]])
    IN  FillAll(sub[1], sub, 2)

\* keep_rows
KeepRows(df, grps) == AsTuple([g \in 1..Len(grps) |-> MergeBucket(df, grps[g])])

\* A final sort by trade_date alone.
FinalSortKeyDateOnly(row) ==
    <<IF row.trade_date = NoDate THEN 1 ELSE 0, -row.trade_date, 0, 0>>

\* The final sort: trade_date descending, then value_usd descending, missing
\* values last in each, ties in keep_rows order.
FinalSortKey(row) ==
    <<IF row.trade_date = NoDate THEN 1 ELSE 0, -row.trade_date,
      IF row.value_usd = NoNum THEN 1 ELSE 0, -row.value_usd>>

\* The final sort by an unstable sort that turns equal rows around.
FinalSortUnstable(rows) ==
    LET n == Len(rows)
        ord == StableOrderTiesReversed(n, [i \in 1..n |-> FinalSortKey(rows[i])])
    IN  AsTuple([p \in 1..n |-> rows[ord[p]]])

FinalSort(rows) ==
    LET n == Len(rows)
        ord == StableOrder(n, [i \in 1..n |-> FinalSortKey(rows[i])])
    IN  AsTuple([p \in 1..n |-> rows[ord[p]]])

\* merge_and_dedupe(df): an empty frame is returned as it is.
MergeAndDedupe(df) ==
    IF df = <<>> THEN <<>>
    ELSE LET d == ExactDedupe(df)
             g == FuzzyGroups(d)
         IN  FinalSort(KeepRows(d, g))

----------------------------------------------------------------------------
(* The run: a scraped batch is enriched (cli.py run_pipeline, lines 153-159), *)
(* turned into a frame and merged (lines 161, 175); the output can be fed     *)
(* through once more.  The run's date window covers every day of the model,   *)
(* so the filter of lines 167-173 keeps every row.                            *)

\* Trade and filing dates of the scraped rows.
ScrapedDates ==
    [td : {1, 2, 3}, fd : {NoDate}] \cup {[td |-> 1, fd |-> 4], [td |-> NoDate, fd |-> NoDate]}

\* The dates of the rows of the ticker that is not in the table, for which no
\* filing is looked up.
UnlistedDates == {d \in ScrapedDates : d.td # 3 /\ (d.td = NoDate => d.fd # NoDate)}

\* Rows scraped without an insider name (the table has no such column or the
\* cell is empty) or with an empty ticker.
NamelessRecords ==
    {SecForm4Record("ACME", NoStr, NoStr, NoStr, "Buy", 1, NoDate, 10000, 10, NoNum),
     SecForm4Record("", NoStr, "smith  jane", NoStr, "Buy", 1, NoDate, 10000, 10, NoNum)}

\* Rows of a ticker whose table entry has a title but no cik_str.
TitleOnlyRecords ==
    {OpenInsiderRecord("NOCIK", "Nocik", "Smith Jane", "CEO", "Buy", 1, 4, 10000, 10, 100, OtherLink),
     SecForm4Record("NOCIK", NoStr, "smith  jane", NoStr, "Buy", 1, NoDate, 10000, 10, NoNum)}

ScrapedRecords ==
    {OpenInsiderRecord("ACME", "Acme Corp.", "Smith Jane", "CEO", "Buy", d.td, d.fd, 10000, 10, 100, l) :
        l \in {OtherLink, ArchiveLink}, d \in ScrapedDates}
    \cup
    {OpenInsiderRecord("ZZZ", "Acme Corp.", "Smith Jane", "CEO", "Buy", d.td, d.fd, 10000, 10, 100, l) :
        l \in {OtherLink, ArchiveLink}, d \in UnlistedDates}
    \cup
    {SecForm4Record("ACME", NoStr, "smith  jane", NoStr, "Buy", d.td, d.fd, 10000, 10, NoNum) :
        d \in ScrapedDates}
    \cup
    {SecForm4Record("ZZZ", NoStr, "smith  jane", NoStr, "Buy", d.td, d.fd, 10000, 10, NoNum) :
        d \in UnlistedDates}
    \cup NamelessRecords \cup TitleOnlyRecords

\* The submissions of the registered company: dated Form 4 filings on days 4
\* and 6; no Form 4 at all; one Form 4 whose date does not parse.
DatedRecent ==
    RecentOf(<<[form |-> "10-K", date |-> 2, acc |-> "ACC"], [form |-> "4", date |-> 4, acc |-> "ACC"],
               [form |-> "4/A", date |-> 6, acc |-> "ACC"]>>, 0)
NoForm4Recent == RecentOf(<<[form |-> "10-K", date |-> 2, acc |-> "ACC"]>>, 0)
UndatedRecent == RecentOf(<<[form |-> "4", date |-> NoDate, acc |-> "ACC"]>>, 0)

Batches(S, n) == UNION {[1..k -> S] : k \in 0..n}

Init ==
    /\ pc = "scraped"
    /\ pass = 1
    /\ \/ recent \in {DatedRecent, NoForm4Recent, UndatedRecent} /\ subsOk = TRUE
       \/ recent = DatedRecent /\ subsOk = FALSE
    /\ records \in Batches(ScrapedRecords, MaxBatch)
    /\ raw = <<>> /\ matched = <<>> /\ raised = 0
    /\ dedup = <<>> /\ groups = <<>> /\ keep_rows = <<>> /\ out = <<>> /\ out1 = <<>>
    /\ query = NoQuery /\ found = NoFiling
    /\ fpArgs = <<>> /\ fpIds = <<>>
    /\ TradesIdle
    /\ PermIdle

\* enrich_sec_links(per_ticker) inside run_pipeline's try/except: whether it
\* returns or raises, the batch that goes on is the list of the same records.
Enrich ==
    /\ pc = "scraped"
    /\ pc' = "enriched"
    /\ raw' = records
    /\ records' = EnrichSecLinks(records, recent, subsOk)
    /\ matched' = MatchedFilings(records, recent, subsOk)
    /\ raised' = FirstRaise(records, recent, subsOk)
    /\ UNCHANGED <<pass, recent, subsOk, dedup, groups, keep_rows, out, out1,
                   query, found, fpArgs, fpIds>>
    /\ UNCHANGED tradeVars
    /\ UNCHANGED permVars

\* merge_and_dedupe(records_to_df(all_records))
Merge ==
    /\ pc = "enriched"
    /\ pc' = "merged"
    /\ LET df == RecordsToDf(records)
           d == IF df = <<>> THEN <<>> ELSE ExactDedupe(df)
           g == IF df = <<>> THEN <<>> ELSE FuzzyGroups(d)
           kr == KeepRows(d, g)
       IN  /\ dedup' = d
           /\ groups' = g
           /\ keep_rows' = kr
           /\ out' = IF df = <<>> THEN df ELSE FinalSort(kr)
    /\ UNCHANGED <<pass, recent, subsOk, records, raw, matched, raised, out1,
                   query, found, fpArgs, fpIds>>
    /\ UNCHANGED tradeVars
    /\ UNCHANGED permVars

\* The output rows become the batch of a second reconciliation.
Feedback ==
    /\ pc = "merged"
    /\ pass = 1
    /\ pass' = 2
    /\ pc' = "scraped"
    /\ records' = out
    /\ out1' = out
    /\ UNCHANGED <<recent, subsOk, raw, matched, raised, dedup, groups, keep_rows, out,
                   query, found, fpArgs, fpIds>>
    /\ UNCHANGED tradeVars
    /\ UNCHANGED permVars

Next == Enrich \/ Merge \/ Feedback

Spec == Init /\ [][Next]_vars

----------------------------------------------------------------------------
(* merge_and_dedupe on its own: a frame is drawn and merged.                  *)

\* The trade dates of the rows: none, or one of three consecutive days.
MergeDays == {NoDate, 1, 2, 3}

\* Rows of one person in one company: every date, every confidence, two share
\* counts, and the two sources (an openinsider row carries an archive link,
\* a name in mixed case and a value; a secform4 row none of these).
MergeRows ==
    {TransactionRecord("ACME", "Acme Corp.", "Smith Jane", "CEO", "Buy", td, NoDate, sh, 10,
                       IF sh = 10000 THEN 200 ELSE 100, ArchiveLink, "openinsider",
                       "https://openinsider.com/screener", c,
                       Sha1EventId("ACME", "Smith Jane", td, sh, 10, "Buy", "openinsider")) :
        td \in MergeDays, sh \in {9950, 10000}, c \in {"HIGH", "MED", "LOW"}}
    \cup
    {TransactionRecord("ACME", NoStr, "smith  jane", NoStr, "Buy", td, NoDate, sh, 10,
                       NoNum, NoLink, "secform4",
                       "https://secform4.com/insider-trading", c,
                       Sha1EventId("ACME", "smith  jane", td, sh, 10, "Buy", "secform4")) :
        td \in MergeDays, sh \in {9950, 10000}, c \in {"HIGH", "MED", "LOW"}}

\* Rows that differ in their share count by less than a share or by five.
ShareRows ==
    {TransactionRecord("ACME", NoStr, "Smith Jane", NoStr, "Buy", td, NoDate, sh, 10,
                       IF c = "MED" THEN 100 ELSE NoNum,
                       IF c = "MED" THEN BuildFilingIndexUrl(Cik10, AccOf(1)) ELSE NoLink,
                       "secform4", "https://secform4.com/insider-trading", c,
                       Sha1EventId("ACME", "Smith Jane", td, sh, 10, "Buy", "secform4")) :
        td \in {1, 2}, sh \in {9950, 10000, 10004}, c \in {"MED", "LOW"}}

\* Rows of two persons, undated or on one of two days, with a value (100 for
\* the one, 200 for the other) or without.
OrderRows ==
    {TransactionRecord("ACME", NoStr, pv.ins, NoStr, "Buy", td, NoDate, 10000, 10,
                       pv.v, NoLink, "secform4", "https://secform4.com/insider-trading", "LOW",
                       Sha1EventId("ACME", pv.ins, td, 10000, 10, "Buy", "secform4")) :
        pv \in {[ins |-> "Smith Jane", v |-> 100], [ins |-> "Smith Jane", v |-> NoNum],
                [ins |-> "Doe John", v |-> 200], [ins |-> "Doe John", v |-> NoNum]},
        td \in {NoDate, 1, 2}}

\* Rows of one trade as the two sources report it, on one of two days, each
\* with or without a price: the openinsider row HIGH with an archive link, the
\* secform4 row LOW without a link.
PriceRows ==
    {TransactionRecord("ACME", "Acme Corp.", "Smith Jane", "CEO", "Buy", td, NoDate, 10000, pr,
                       100, ArchiveLink, "openinsider",
                       "https://openinsider.com/screener", "HIGH",
                       Sha1EventId("ACME", "Smith Jane", td, 10000, pr, "Buy", "openinsider")) :
        td \in {1, 2}, pr \in {NoNum, 10}}
    \cup
    {TransactionRecord("ACME", NoStr, "smith  jane", NoStr, "Buy", td, NoDate, 10000, pr,
                       NoNum, NoLink, "secform4",
                       "https://secform4.com/insider-trading", "LOW",
                       Sha1EventId("ACME", "smith  jane", td, 10000, pr, "Buy", "secform4")) :
        td \in {1, 2}, pr \in {NoNum, 10}}

InitMerge ==
    /\ pc = "enriched"
    /\ pass = 1
    /\ recent = EmptyRecent /\ subsOk = TRUE
    /\ records \in Batches(MergeRows, MaxRows) \cup Batches(ShareRows, MaxRows)
                   \cup Batches(OrderRows, MaxOrderRows) \cup Batches(PriceRows, MaxRows)
    /\ raw = <<>> /\ matched = <<>> /\ raised = 0
    /\ dedup = <<>> /\ groups = <<>> /\ keep_rows = <<>> /\ out = <<>> /\ out1 = <<>>
    /\ query = NoQuery /\ found = NoFiling
    /\ fpArgs = <<>> /\ fpIds = <<>>
    /\ TradesIdle
    /\ PermIdle

NextMerge == Merge

SpecMerge == InitMerge /\ [][NextMerge]_vars

----------------------------------------------------------------------------
(* merge_and_dedupe on frames of up to three rows of one bucket, and on      *)
(* frames that hold the same row more than once.                             *)

\* One openinsider row scraped more than once: the same event_id on each of
\* two days, HIGH or LOW, without a link, with a link that is not into
\* sec.gov, or with an archive link.
DupRows ==
    {TransactionRecord("ACME", "Acme Corp.", "Smith Jane", "CEO", "Buy", td, NoDate, 10000, 10,
                       100, l, "openinsider", "https://openinsider.com/screener", c,
                       Sha1EventId("ACME", "Smith Jane", td, 10000, 10, "Buy", "openinsider")) :
        td \in {1, 2}, l \in {NoLink, OtherLink, ArchiveLink}, c \in {"HIGH", "LOW"}}

\* Rows of one bucket, undated or on one of three consecutive days: the
\* openinsider row HIGH with an archive link, with a price of 10 or without
\* one; the secform4 row LOW with a price of 20 and a value, without a
\* company name, a role and a link.
ClusterRows ==
    {TransactionRecord("ACME", "Acme Corp.", "Smith Jane", "CEO", "Buy", td, NoDate, 10000, pr,
                       NoNum, ArchiveLink, "openinsider",
                       "https://openinsider.com/screener", "HIGH",
                       Sha1EventId("ACME", "Smith Jane", td, 10000, pr, "Buy", "openinsider")) :
        td \in MergeDays, pr \in {NoNum, 10}}
    \cup
    {TransactionRecord("ACME", NoStr, "smith  jane", NoStr, "Buy", td, NoDate, 10000, 20,
                       100, NoLink, "secform4",
                       "https://secform4.com/insider-trading", "LOW",
                       Sha1EventId("ACME", "smith  jane", td, 10000, 20, "Buy", "secform4")) :
        td \in MergeDays}

\* Rows of one trade on day 1 whose share count is 0.0 or missing and whose
\* price is 10 or missing: the openinsider row HIGH with an archive link, the
\* secform4 row LOW without a link.
ZeroShareRows ==
    {TransactionRecord("ACME", "Acme Corp.", "Smith Jane", "CEO", "Buy", 1, NoDate, sh, pr,
                       NoNum, ArchiveLink, "openinsider",
                       "https://openinsider.com/screener", "HIGH",
                       Sha1EventId("ACME", "Smith Jane", 1, sh, pr, "Buy", "openinsider")) :
        sh \in {NoNum, 0}, pr \in {NoNum, 10}}
    \cup
    {TransactionRecord("ACME", NoStr, "smith  jane", NoStr, "Buy", 1, NoDate, sh, pr,
                       NoNum, NoLink, "secform4",
                       "https://secform4.com/insider-trading", "LOW",
                       Sha1EventId("ACME", "smith  jane", 1, sh, pr, "Buy", "secform4")) :
        sh \in {NoNum, 0}, pr \in {NoNum, 10}}

InitCluster ==
    /\ pc = "enriched"
    /\ pass = 1
    /\ recent = EmptyRecent /\ subsOk = TRUE
    /\ records \in Batches(DupRows, MaxRows) \cup Batches(ClusterRows, MaxClusterRows)
                   \cup Batches(ZeroShareRows, MaxClusterRows)
    /\ raw = <<>> /\ matched = <<>> /\ raised = 0
    /\ dedup = <<>> /\ groups = <<>> /\ keep_rows = <<>> /\ out = <<>> /\ out1 = <<>>
    /\ query = NoQuery /\ found = NoFiling
    /\ fpArgs = <<>> /\ fpIds = <<>>
    /\ TradesIdle
    /\ PermIdle

NextCluster == Merge

SpecCluster == InitCluster /\ [][NextCluster]_vars

----------------------------------------------------------------------------
(* merge_and_dedupe called on a frame and on the same rows in another order. *)

\* Rows of one person's trade.  On day 1 from secform4: HIGH with an archive
\* link and no value, LOW without a link and with a value of 100 or without
\* one (the three share their event_id).  The HIGH row on day 2.  The HIGH row
\* on day 1 with 0.0 shares and with no share count (the two share their
\* event_id and are in different buckets).  And the HIGH row on day 1 as
\* openinsider has it, with a company name and a value of 200.
PermuteRows ==
    {TransactionRecord("ACME", NoStr, "Smith Jane", NoStr, "Buy", 1, NoDate, 10000, 10,
                       v.value, v.link, "secform4",
                       "https://secform4.com/insider-trading", v.conf,
                       Sha1EventId("ACME", "Smith Jane", 1, 10000, 10, "Buy", "secform4")) :
        v \in {[conf |-> "HIGH", link |-> ArchiveLink, value |-> NoNum],
               [conf |-> "LOW", link |-> NoLink, value |-> 100],
               [conf |-> "LOW", link |-> NoLink, value |-> NoNum]}}
    \cup
    {TransactionRecord("ACME", NoStr, "Smith Jane", NoStr, "Buy", 2, NoDate, 10000, 10,
                       NoNum, ArchiveLink, "secform4",
                       "https://secform4.com/insider-trading", "HIGH",
                       Sha1EventId("ACME", "Smith Jane", 2, 10000, 10, "Buy", "secform4"))}
    \cup
    {TransactionRecord("ACME", NoStr, "Smith Jane", NoStr, "Buy", 1, NoDate, sh, 10,
                       NoNum, ArchiveLink, "secform4",
                       "https://secform4.com/insider-trading", "HIGH",
                       Sha1EventId("ACME", "Smith Jane", 1, sh, 10, "Buy", "secform4")) :
        sh \in {NoNum, 0}}
    \cup
    {TransactionRecord("ACME", "Acme Corp.", "Smith Jane", "CEO", "Buy", 1, NoDate, 10000, 10,
                       200, ArchiveLink, "openinsider",
                       "https://openinsider.com/screener", "HIGH",
                       Sha1EventId("ACME", "Smith Jane", 1, 10000, 10, "Buy", "openinsider"))}

\* The rows of rs in every order.
Reorderings(rs) ==
    {AsTuple([i \in 1..Len(rs) |-> rs[p[i]]]) : p \in Permutations(1..Len(rs))}

InitPermute ==
    /\ pc = "enriched"
    /\ pass = 1
    /\ recent = EmptyRecent /\ subsOk = TRUE
    /\ records \in Batches(PermuteRows, MaxPermuted)
    /\ permuted \in Reorderings(records)
    /\ out_perm = <<>>
    /\ raw = <<>> /\ matched = <<>> /\ raised = 0
    /\ dedup = <<>> /\ groups = <<>> /\ keep_rows = <<>> /\ out = <<>> /\ out1 = <<>>
    /\ query = NoQuery /\ found = NoFiling
    /\ fpArgs = <<>> /\ fpIds = <<>>
    /\ TradesIdle

\* merge_and_dedupe(records_to_df(records)) and
\* merge_and_dedupe(records_to_df(permuted))
MergeBoth ==
    /\ pc = "enriched"
    /\ pc' = "merged"
    /\ LET df == RecordsToDf(records)
           d == IF df = <<>> THEN <<>> ELSE ExactDedupe(df)
           g == IF df = <<>> THEN <<>> ELSE FuzzyGroups(d)
           kr == KeepRows(d, g)
       IN  /\ dedup' = d
           /\ groups' = g
           /\ keep_rows' = kr
           /\ out' = IF df = <<>> THEN df ELSE FinalSort(kr)
    /\ out_perm' = MergeAndDedupe(RecordsToDf(permuted))
    /\ UNCHANGED <<pass, recent, subsOk, records, raw, matched, raised, out1,
                   query, found, fpArgs, fpIds, permuted>>
    /\ UNCHANGED tradeVars

NextPermute == MergeBoth

SpecPermute == InitPermute /\ [][NextPermute]_vars

----------------------------------------------------------------------------
(* insider_scanner/core/models.py and merger.py: InsiderTrade, merge_trades   *)
(* and filter_trades.  An InsiderTrade's shares, price and value are whole    *)
(* numbers here (the default 0.0 is 0); a missing string is "", a missing     *)
(* date NoDate.                                                               *)

InsiderTrade(ticker, company, insider_name, insider_title, trade_type, trade_date, filing_date, shares, price, value, source, edgar_url, is_congress, congress_member) ==
    [ticker |-> ticker, company |-> company, insider_name |-> insider_name,
     insider_title |-> insider_title, trade_type |-> trade_type, trade_date |-> trade_date,
     filing_date |-> filing_date, shares |-> shares, price |-> price, value |-> value,
     shares_owned_after |-> 0, source |-> source, edgar_url |-> edgar_url,
     is_congress |-> is_congress, congress_member |-> congress_member]

\* str.upper(), str.lower() and str.strip() on the strings of the model.
Upper(x) ==
    CASE x = "aapl" -> "AAPL" [] x = "aapl " -> "AAPL " [] x = "msft" -> "MSFT" [] OTHER -> x
Lower(x) ==
    CASE x = "Cook Timothy" -> "cook timothy" [] x = "Nadella" -> "nadella" [] OTHER -> x
Strip(x) ==
    CASE x = "AAPL " -> "AAPL" [] x = "aapl " -> "aapl" [] OTHER -> x

\* Python's round(num / den) for num >= 0: to the nearest integer, a half to
\* the even neighbour.
PyRound(num, den) ==
    LET q == num \div den
        r == num % den
    IN  IF 2 * r < den THEN q
        ELSE IF 2 * r > den THEN q + 1
        ELSE IF q % 2 = 0 THEN q ELSE q + 1

\* round(trade.shares / 10) * 10 if trade.shares else 0
SharesBucket(shares) == IF shares = 0 THEN 0 ELSE PyRound(shares, 10) * 10

\* _dedup_key
DedupKey(trade) ==
    <<Strip(Upper(trade.ticker)), Strip(Lower(trade.insider_name)),
      IF trade.trade_date # NoDate THEN <<trade.trade_date>> ELSE <<>>,
      SharesBucket(trade.shares)>>

\* _richness_score
RichnessScore(trade) ==
    (IF trade.company # "" THEN 1 ELSE 0) + (IF trade.insider_name # "" THEN 1 ELSE 0)
    + (IF trade.insider_title # "" THEN 1 ELSE 0) + (IF trade.trade_date # NoDate THEN 1 ELSE 0)
    + (IF trade.filing_date # NoDate THEN 1 ELSE 0) + (IF trade.shares # 0 THEN 1 ELSE 0)
    + (IF trade.price # 0 THEN 1 ELSE 0) + (IF trade.value # 0 THEN 1 ELSE 0)
    + (IF trade.edgar_url # "" THEN 2 ELSE 0)

\* seen.get(key): the entry of the dict with this key, 0 for None.  The dict
\* is the list of its entries [key, pos] in insertion order, pos the position
\* of the trade object it holds.
SeenAt(seen, key) ==
    IF \E e \in 1..Len(seen) : seen[e].key = key
    THEN CHOOSE e \in 1..Len(seen) : seen[e].key = key
    ELSE 0

\* into.edgar_url and the congress fields, taken over from the other trade
\* of the pair as lines 85-89 and 92-96 do.
TakeOver(into, from) ==
    LET t1 == IF from.edgar_url # "" /\ into.edgar_url = ""
              THEN [into EXCEPT !.edgar_url = from.edgar_url] ELSE into
    IN  IF from.is_congress
        THEN [t1 EXCEPT !.is_congress = TRUE, !.congress_member = from.congress_member]
        ELSE t1

\* A loop body that stores every trade under a key of its own.
MergeStepNeverSeen(st, i) ==
    [objs |-> st.objs,
     seen |-> Append(st.seen, [key |-> <<DedupKey(st.objs[i]), i>>, pos |-> i])]

\* A loop body that keeps the richer trade and takes nothing over.
MergeStepRicherOnly(st, i) ==
    LET trade == st.objs[i]
        key == DedupKey(trade)
        e == SeenAt(st.seen, key)
    IN  IF e = 0
        THEN [objs |-> st.objs, seen |-> Append(st.seen, [key |-> key, pos |-> i])]
        ELSE IF RichnessScore(trade) > RichnessScore(st.objs[st.seen[e].pos])
        THEN [objs |-> st.objs, seen |-> [st.seen EXCEPT ![e].pos = i]]
        ELSE st

\* The body of the loop of merge_trades for the trade at position i; the
\* trade objects are changed in place.
MergeStep(st, i) ==
    LET trade == st.objs[i]
        key == DedupKey(trade)
        e == SeenAt(st.seen, key)
    IN  IF e = 0
        THEN [objs |-> st.objs, seen |-> Append(st.seen, [key |-> key, pos |-> i])]
        ELSE LET x == st.seen[e].pos
                 existing == st.objs[x]
             IN  IF RichnessScore(trade) > RichnessScore(existing)
                 THEN [objs |-> [st.objs EXCEPT ![i] = TakeOver(trade, existing)],
                       seen |-> [st.seen EXCEPT ![e].pos = i]]
                 ELSE [objs |-> [st.objs EXCEPT ![x] = TakeOver(existing, trade)],
                       seen |-> st.seen]

RECURSIVE MergeLoop(_, _)
MergeLoop(st, i) ==
    IF i > Len(st.objs) THEN st ELSE MergeLoop(MergeStep(st, i), i + 1)

\* The trades of all lists, in the order the two loops visit them.
RECURSIVE Flatten(_)
Flatten(lists) ==
    IF lists = <<>> THEN <<>> ELSE Head(lists) \o Flatten(Tail(lists))

\* merge_trades(*trade_lists): the trade objects as the loop leaves them and
\* the returned list, list(seen.values()) sorted by trade_date descending
\* (None as date.min, so last), ties in dict order.
MergeTrades(lists) ==
    LET st == MergeLoop([objs |-> Flatten(lists), seen |-> <<>>], 1)
        n == Len(st.seen)
        vals == AsTuple([k \in 1..n |-> st.objs[st.seen[k].pos]])
        ord == StableOrder(n, [k \in 1..n |-> <<-vals[k].trade_date>>])
    IN  [objs |-> st.objs, merged |-> AsTuple([p \in 1..n |-> vals[ord[p]]])]

\* One criterion of filter_trades applied to one trade.
Passes(t, f) ==
    /\ (f.ticker # NoStr /\ f.ticker # "") => Upper(t.ticker) = Upper(f.ticker)
    /\ (f.trade_type # NoStr /\ f.trade_type # "") => t.trade_type = f.trade_type
    /\ f.min_value # NoNum => Abs(t.value) >= f.min_value
    /\ f.congress_only => t.is_congress
    /\ f.since # NoDate => (t.trade_date # NoDate /\ t.trade_date >= f.since)
    /\ f.until # NoDate => (t.trade_date # NoDate /\ t.trade_date <= f.until)

\* filter_trades: the list comprehensions keep the order of the trades.
FilterTrades(ts, f) ==
    LET Keep(t) == Passes(t, f)
    IN  SelectSeq(ts, Keep)

----------------------------------------------------------------------------
(* merge_trades and filter_trades on their own.                               *)

MaxTrades == 3      \* trades passed to merge_trades, over all lists
MaxFiltered == 2    \* trades passed to filter_trades

\* Nothing of the insider_scan pipeline has run.
PipelineIdle ==
    /\ pass = 1
    /\ recent = EmptyRecent /\ subsOk = TRUE
    /\ records = <<>> /\ raw = <<>> /\ matched = <<>> /\ raised = 0
    /\ dedup = <<>> /\ groups = <<>> /\ keep_rows = <<>> /\ out = <<>> /\ out1 = <<>>
    /\ query = NoQuery /\ found = NoFiling
    /\ fpArgs = <<>> /\ fpIds = <<>>
    /\ PermIdle

pipelineVars == <<pass, recent, subsOk, records, raw, matched, raised,
                  dedup, groups, keep_rows, out, out1, query, found, fpArgs, fpIds,
                  permuted, out_perm>>

\* One sale as three sources report it: a full record without a link, undated
\* or on day 1, the ticker as "AAPL" or as "aapl "; a bare record with an
\* EDGAR link, undated or on day 1; and a bare record flagged as a Congress
\* trade.
DupTrades ==
    {InsiderTrade(tk, "Apple Inc.", "Cook Timothy", "CEO", "Sell", td, td, 1000, 185, 185000,
                  "secform4", "", FALSE, "") : tk \in {"AAPL", "aapl "}, td \in {NoDate, 1}}
    \cup
    {InsiderTrade("AAPL", "", "Cook Timothy", "", "Sell", td, td, 1000, 0, 0,
                  "openinsider", "https://sec.gov/filing/123", FALSE, "") : td \in {NoDate, 1}}
    \cup
    {InsiderTrade("aapl ", "", "Cook Timothy", "", "Sell", 1, 1, 1000, 0, 0,
                  "senate", "", TRUE, "Tuberville")}

\* One trade with share counts that are close or far from each other.
ShareCounts == {0, 6, 14, 995, 1004, 1005, 1006}
ShareTrades ==
    {InsiderTrade("AAPL", "", "Cook Timothy", "", "Sell", 1, 1, sh, 0, 0, "secform4", "", FALSE, "") :
        sh \in ShareCounts}

\* The ways a list of trades is passed: as no list, as one list, or cut in two.
TradeListsOf(S) ==
    {<<>>} \cup {<<seq>> : seq \in Batches(S, MaxTrades)}
    \cup UNION {{<<SubSeq(seq, 1, k), SubSeq(seq, k + 1, Len(seq))>> : k \in 0..Len(seq)} :
                   seq \in Batches(S, MaxTrades)}

InitTrades ==
    /\ pc = "lists"
    /\ PipelineIdle
    /\ trade_lists \in TradeListsOf(DupTrades) \cup TradeListsOf(ShareTrades)
    /\ trade_objs = <<>> /\ merged = <<>>
    /\ trades = <<>> /\ flt = NoFilter /\ result = <<>>

\* merged = merge_trades(*trade_lists)
CallMergeTrades ==
    /\ pc = "lists"
    /\ pc' = "merged_trades"
    /\ LET r == MergeTrades(trade_lists)
       IN  trade_objs' = r.objs /\ merged' = r.merged
    /\ UNCHANGED <<trade_lists, trades, flt, result>>
    /\ UNCHANGED pipelineVars

NextTrades == CallMergeTrades

SpecTrades == InitTrades /\ [][NextTrades]_vars

\* Trades of two companies, the trade undated or on day 1 or 3, the filing on
\* day 1 or 3: a sale of 200 by an officer, a purchase of 50 by a senator.
FilterRows ==
    {InsiderTrade("AAPL", "", "Cook Timothy", "", "Sell", td, fd, 1000, 10, 200, "secform4", "",
                  FALSE, "") : td \in {NoDate, 1, 3}, fd \in {1, 3}}
    \cup
    {InsiderTrade("MSFT", "", "Nadella", "", "Buy", td, fd, 1000, 10, 50, "secform4", "",
                  TRUE, "Tuberville") : td \in {NoDate, 1, 3}, fd \in {1, 3}}

\* Calls with a date range, and calls with one of the other criteria.
FilterArgs ==
    {[NoFilter EXCEPT !.since = s, !.until = u] : s \in OptDays, u \in OptDays}
    \cup {[NoFilter EXCEPT !.ticker = "aapl"], [NoFilter EXCEPT !.trade_type = "Buy"],
          [NoFilter EXCEPT !.min_value = 100], [NoFilter EXCEPT !.congress_only = TRUE]}

InitFilter ==
    /\ pc = "unfiltered"
    /\ PipelineIdle
    /\ trade_lists = <<>> /\ trade_objs = <<>> /\ merged = <<>>
    /\ trades \in Batches(FilterRows, MaxFiltered)
    /\ flt = NoFilter /\ result = <<>>

\* result = filter_trades(trades, **f)
CallFilterTrades(f) ==
    /\ pc = "unfiltered"
    /\ pc' = "filtered"
    /\ flt' = f
    /\ result' = FilterTrades(trades, f)
    /\ UNCHANGED <<trade_lists, trade_objs, merged, trades>>
    /\ UNCHANGED pipelineVars

NextFilter == \E f \in FilterArgs : CallFilterTrades(f)

SpecFilter == InitFilter /\ [][NextFilter]_vars

\* The trades passed to merge_trades, in one list.
InputTrades == Flatten(trade_lists)

\* C14: after merge_trades no two output trades have the same deduplication
\* key, and there are as many output trades as distinct keys among the input
\* trades of all lists.
C14_OneTradePerKey ==
    pc = "merged_trades" =>
        /\ \A i, j \in 1..Len(merged) : i < j => DedupKey(merged[i]) # DedupKey(merged[j])
        /\ Len(merged) = Cardinality({DedupKey(InputTrades[i]) : i \in 1..Len(InputTrades)})

\* Three trades in two non-empty lists, two of them with one key but
\* different ticker texts, came out as two trades.
C14_Witness ==
    /\ pc = "merged_trades"
    /\ Len(trade_lists) = 2 /\ trade_lists[1] # <<>> /\ trade_lists[2] # <<>>
    /\ Len(InputTrades) = 3
    /\ Len(merged) = 2
    /\ \E i, j \in 1..3 :
          /\ InputTrades[i].ticker # InputTrades[j].ticker
          /\ DedupKey(InputTrades[i]) = DedupKey(InputTrades[j])

\* C15: when an input trade has an edgar_url, the output trade of its
\* deduplication key has an edgar_url, in whatever order the trades of the
\* key were passed.
C15_EdgarUrlPreserved ==
    pc = "merged_trades" =>
        \A i \in 1..Len(InputTrades) :
            InputTrades[i].edgar_url # "" =>
                \E j \in 1..Len(merged) :
                    /\ DedupKey(merged[j]) = DedupKey(InputTrades[i])
                    /\ merged[j].edgar_url # ""
                    /\ \A k \in 1..Len(merged) :
                          DedupKey(merged[k]) = DedupKey(InputTrades[i]) => k = j

\* A bare trade with a link came first, a richer trade without one second:
\* the richer trade was output, with the link.
C15_Witness ==
    /\ pc = "merged_trades"
    /\ Len(InputTrades) = 2
    /\ InputTrades[1].edgar_url # "" /\ InputTrades[2].edgar_url = ""
    /\ RichnessScore(InputTrades[2]) > RichnessScore(InputTrades[1])
    /\ Len(merged) = 1
    /\ merged[1].company = InputTrades[2].company
    /\ merged[1].edgar_url = InputTrades[1].edgar_url

\* The call gave no criterion but since and until.
DateRangeOnly ==
    /\ flt.ticker = NoStr /\ flt.trade_type = NoStr
    /\ flt.min_value = NoNum /\ ~flt.congress_only

\* Trade t was filed within the closed range of the call (an open end is no limit).
FiledInRange(t) ==
    /\ flt.since # NoDate => (t.filing_date # NoDate /\ t.filing_date >= flt.since)
    /\ flt.until # NoDate => (t.filing_date # NoDate /\ t.filing_date <= flt.until)

\* C16: with since, with until, or with both, filter_trades returns exactly
\* the trades whose filing date is on or after since and on or before until.
C16_FilterByFilingDate ==
    (pc = "filtered" /\ DateRangeOnly) => result = SelectSeq(trades, FiledInRange)

\* The two share counts are within 1% of each other.
WithinOnePercent(a, b) == 100 * Abs(a - b) <= (IF a > b THEN a ELSE b)

\* C17: two trades passed to merge_trades come out as one trade exactly when
\* they have the same ticker, the same insider name and the same trade date
\* and share counts within 1% of each other.
C17_DuplicatesWithinOnePercent ==
    (pc = "merged_trades" /\ Len(InputTrades) = 2) =>
        (Len(merged) = 1 <=>
            /\ Strip(Upper(InputTrades[1].ticker)) = Strip(Upper(InputTrades[2].ticker))
            /\ Strip(Lower(InputTrades[1].insider_name)) = Strip(Lower(InputTrades[2].insider_name))
            /\ InputTrades[1].trade_date = InputTrades[2].trade_date
            /\ WithinOnePercent(InputTrades[1].shares, InputTrades[2].shares))

----------------------------------------------------------------------------
(* Properties of merge_and_dedupe (checked under SpecMerge) *)

\* C1: in every fuzzy group the merged output record's confidence ranks at
\* least as high as the confidence of every row merged into the group.
C1_ConfidenceMonotone ==
    pc = "merged" =>
        \A g \in 1..Len(groups) :
            /\ \E i \in 1..Len(out) : out[i] = keep_rows[g]
            /\ \A p \in 1..Len(groups[g]) :
                  ConfidenceRank(keep_rows[g].confidence)
                      >= ConfidenceRank(dedup[groups[g][p]].confidence)

\* A group whose first row (the anchor) ranks below another of its rows.
C1_Witness ==
    /\ pc = "merged"
    /\ \E g \in 1..Len(groups) :
          /\ Len(groups[g]) >= 2
          /\ ConfidenceRank(dedup[groups[g][1]].confidence)
                 < ConfidenceRank(dedup[groups[g][2]].confidence)
          /\ keep_rows[g].confidence = dedup[groups[g][2]].confidence

\* The input is two rows of the same ticker and the same subject name with
\* share counts sa and sb (in tenths), trade dates one day apart, one LOW and
\* one MED.
C6Pair(sa, sb) ==
    /\ Len(records) = 2
    /\ records[1].ticker = records[2].ticker
    /\ records[1].insider_name = records[2].insider_name
    /\ {records[1].shares, records[2].shares} = {sa, sb}
    /\ records[1].trade_date # NoDate /\ records[2].trade_date # NoDate
    /\ Abs(records[1].trade_date - records[2].trade_date) = 1
    /\ {records[1].confidence, records[2].confidence} = {"LOW", "MED"}

\* C6 (as stated): such a pair with 1000 and 995 shares comes out as exactly
\* one record, and that record is MED.
C6_Pair1000And995IsOneMedRecord ==
    (pc = "merged" /\ C6Pair(10000, 9950)) =>
        Len(out) = 1 /\ out[1].confidence = "MED"

\* C6 (amended): such a pair comes out as exactly one MED record when the two
\* share counts round to the same whole number of shares (1000 and 1000.4);
\* with 1000 and 995 shares both records are output.
C6_PairOfSameWholeShareIsOneMedRecord ==
    pc = "merged" =>
        /\ C6Pair(10000, 10004) => Len(out) = 1 /\ out[1].confidence = "MED"
        /\ C6Pair(10000, 9950) => Len(out) = 2

\* A pair with 1000 and 1000.4 shares was merged.
C6_Witness ==
    /\ pc = "merged"
    /\ C6Pair(10000, 10004)
    /\ Len(out) = 1
    /\ Len(groups) = 1 /\ Len(groups[1]) = 2

\* Row a may stand before row b: by trade_date descending with missing dates
\* last, and for the same trade_date by value_usd descending, missing last.
DateOrdered(a, b) ==
    \/ a.trade_date # NoDate /\ (b.trade_date = NoDate \/ a.trade_date >= b.trade_date)
    \/ a.trade_date = NoDate /\ b.trade_date = NoDate
ValueOrdered(a, b) ==
    \/ a.value_usd # NoNum /\ (b.value_usd = NoNum \/ a.value_usd >= b.value_usd)
    \/ a.value_usd = NoNum /\ b.value_usd = NoNum

\* C9: the output is ordered by trade_date descending, rows without a
\* trade_date after all dated rows, and rows of equal trade_date by value_usd
\* descending, rows without a value last.
C9_OutputOrdered ==
    pc = "merged" =>
        \A i, j \in 1..Len(out) :
            i < j =>
                /\ DateOrdered(out[i], out[j])
                /\ out[i].trade_date = out[j].trade_date => ValueOrdered(out[i], out[j])

\* Three rows came out: two of one date, the one with a value before the one
\* without, and last an undated row of a higher value that came in first.
C9_Witness ==
    /\ pc = "merged"
    /\ Len(out) = 3
    /\ out[1].trade_date # NoDate
    /\ out[1].trade_date = out[2].trade_date
    /\ out[1].value_usd = 100 /\ out[2].value_usd = NoNum
    /\ out[3].trade_date = NoDate /\ out[3].value_usd = 200
    /\ records[1] = out[3]

\* The fingerprint of a row's own fields.
OwnFingerprint(row) ==
    Sha1EventId(row.ticker, row.insider_name, row.trade_date, row.shares, row.price,
                row.transaction_type, row.source)

\* C11: every output row's event_id is the fingerprint of that row's own
\* ticker, insider_name, trade_date, shares, price, transaction_type and
\* source, also when fields of the row were filled in from other rows.
C11_EventIdIsOwnFingerprint ==
    pc = "merged" =>
        \A i \in 1..Len(out) : out[i].event_id = OwnFingerprint(out[i])

\* Row b ranks at least as high as row r as a base: by confidence, then by
\* having a sec.gov link.
RanksAsBase(b, r) ==
    \/ ConfCol(b) > ConfCol(r)
    \/ ConfCol(b) = ConfCol(r) /\ HasSecCol(b) >= HasSecCol(r)

\* C12: the merged row of every fuzzy group carries the source of a row of
\* the group that no other row of the group outranks as base (highest
\* confidence, then link presence), whatever was filled in from the others.
C12_SourceIsBaseSource ==
    pc = "merged" =>
        \A g \in 1..Len(groups) :
            \E p \in 1..Len(groups[g]) :
                /\ keep_rows[g].source = dedup[groups[g][p]].source
                /\ \A q \in 1..Len(groups[g]) :
                      RanksAsBase(dedup[groups[g][p]], dedup[groups[g][q]])

\* A group of two rows of different sources whose second row is the base,
\* and the base's missing price was filled in from the first.
C12_Witness ==
    /\ pc = "merged"
    /\ \E g \in 1..Len(groups) :
          /\ Len(groups[g]) = 2
          /\ dedup[groups[g][1]].source # dedup[groups[g][2]].source
          /\ ConfCol(dedup[groups[g][2]]) > ConfCol(dedup[groups[g][1]])
          /\ dedup[groups[g][2]].price = NoNum
          /\ keep_rows[g].price = dedup[groups[g][1]].price
          /\ keep_rows[g].price # NoNum
          /\ keep_rows[g].source = dedup[groups[g][2]].source

----------------------------------------------------------------------------
(* Properties of merge_and_dedupe (checked under SpecCluster) *)

\* C21: after the exact pass exactly one row is left of every event_id of
\* the frame; it is one of the rows of that event_id with the highest
\* confidence, and it has a link into sec.gov if any of these has one.
C21_ExactCollapseKeepsBest ==
    pc = "merged" =>
        LET df == RecordsToDf(records)
        IN  /\ \A p \in 1..Len(dedup) : \E k \in 1..Len(df) : dedup[p] = df[k]
            /\ \A i \in 1..Len(df) :
                  LET grp == {k \in 1..Len(df) : df[k].event_id = df[i].event_id}
                      top == {k \in grp : \A m \in grp : ConfCol(df[k]) >= ConfCol(df[m])}
                      surv == {p \in 1..Len(dedup) : dedup[p].event_id = df[i].event_id}
                  IN  /\ Cardinality(surv) = 1
                      /\ \A p \in surv :
                            /\ \E k \in top : dedup[p] = df[k]
                            /\ (\E k \in top : HasSecCol(df[k]) = 1) => HasSecCol(dedup[p]) = 1

\* Two rows of one event_id and one confidence, the first without a link into
\* sec.gov and the second with one: the second is the one row left.
C21_Witness ==
    /\ pc = "merged"
    /\ Len(records) = 2
    /\ records[1].event_id = records[2].event_id
    /\ records[1].confidence = records[2].confidence
    /\ HasSecCol(records[1]) = 0
    /\ HasSecCol(records[2]) = 1
    /\ dedup = <<records[2]>>

\* The trade dates of the rows of fuzzy group g.
GroupDates(g) == {dedup[groups[g][p]].trade_date : p \in 1..Len(groups[g])}

\* The positions in dedup of the rows of fuzzy group g.
GroupMembers(g) == {groups[g][p] : p \in 1..Len(groups[g])}

\* C22: the first row of a fuzzy group (its anchor) is its earliest; every
\* other row of the group is dated within one day of the anchor, both dates
\* present; a row of the anchor's bucket that is within one day of the anchor
\* and not in the group was taken by a group formed before; and three rows of
\* one bucket dated d, d+1 and d+2 give two output rows, from the groups
\* {d, d+1} and {d+2}.
C22_ClusterIsAnchorWindow ==
    pc = "merged" =>
        /\ \A g \in 1..Len(groups) :
              LET a == dedup[groups[g][1]]
              IN  /\ \A p \in 2..Len(groups[g]) :
                        /\ a.trade_date # NoDate
                        /\ dedup[groups[g][p]].trade_date # NoDate
                        /\ dedup[groups[g][p]].trade_date >= a.trade_date
                        /\ dedup[groups[g][p]].trade_date - a.trade_date <= 1
                  /\ \A r \in 1..Len(dedup) :
                        ( /\ r \notin GroupMembers(g)
                          /\ GroupKey(dedup[r]) = GroupKey(a)
                          /\ a.trade_date # NoDate
                          /\ dedup[r].trade_date # NoDate
                          /\ Abs(dedup[r].trade_date - a.trade_date) <= 1 )
                        => \E h \in 1..(g - 1) : r \in GroupMembers(h)
        /\ \A d \in Days :
              ( /\ Len(dedup) = 3
                /\ \A r \in 1..3 : GroupKey(dedup[r]) = GroupKey(dedup[1])
                /\ {dedup[r].trade_date : r \in 1..3} = {d, d + 1, d + 2} )
              => /\ Len(out) = 2
                 /\ Len(groups) = 2
                 /\ GroupDates(1) = {d, d + 1}
                 /\ GroupDates(2) = {d + 2}

\* Three rows of one bucket, given as day 3, day 1, day 2: two output rows.
C22_Witness ==
    /\ pc = "merged"
    /\ Len(records) = 3
    /\ records[1].trade_date = 3 /\ records[2].trade_date = 1 /\ records[3].trade_date = 2
    /\ Len(dedup) = 3
    /\ \A r \in 1..3 : GroupKey(dedup[r]) = GroupKey(dedup[1])
    /\ Len(groups) = 2
    /\ Len(out) = 2

\* The fuzzy group that holds position r of dedup.
GroupOf(r) == CHOOSE g \in 1..Len(groups) : r \in GroupMembers(g)

\* C23 as stated: the rows without a trade date that fall in one bucket are
\* in one fuzzy group.
C23_UndatedClustered ==
    pc = "merged" =>
        \A r, q \in 1..Len(dedup) :
            ( /\ dedup[r].trade_date = NoDate
              /\ dedup[q].trade_date = NoDate
              /\ GroupKey(dedup[r]) = GroupKey(dedup[q]) )
            => \E g \in 1..Len(groups) : {r, q} \subseteq GroupMembers(g)

\* C23: a row without a trade date that is left after the exact pass is a
\* fuzzy group of its own, whatever else is in its bucket, and its merged
\* row is the row itself; so the output has as many rows without a trade
\* date as the exact pass has left.
C23_UndatedAlone ==
    pc = "merged" =>
        /\ \A r \in 1..Len(dedup) :
              dedup[r].trade_date = NoDate =>
                  \E g \in 1..Len(groups) :
                      /\ groups[g] = <<r>>
                      /\ keep_rows[g] = dedup[r]
        /\ Cardinality({j \in 1..Len(out) : out[j].trade_date = NoDate})
             = Cardinality({r \in 1..Len(dedup) : dedup[r].trade_date = NoDate})

\* Two rows of one bucket without a trade date, of different sources: two
\* groups and two output rows.
C23_Witness ==
    /\ pc = "merged"
    /\ Len(dedup) = 2
    /\ dedup[1].trade_date = NoDate /\ dedup[2].trade_date = NoDate
    /\ GroupKey(dedup[1]) = GroupKey(dedup[2])
    /\ dedup[1].source # dedup[2].source
    /\ Len(groups) = 2
    /\ Len(out) = 2

\* The columns the merge fills, and whether a value of one of them is missing.
FillCols ==
    {"company_name", "role_relation", "transaction_type", "trade_date", "filing_date",
     "shares", "price", "value_usd", "sec_link", "source_url"}

MissingIn(row, col) ==
    CASE col \in {"company_name", "role_relation", "transaction_type", "source_url"} ->
             row[col] = NoStr
      [] col \in {"trade_date", "filing_date"} -> row[col] = NoDate
      [] col \in {"shares", "price", "value_usd"} -> row[col] = NoNum
      [] OTHER -> row[col] = NoLink

\* Row q comes strictly before row p in the order by confidence, then link
\* presence, both descending.
Outranks(q, p) ==
    \/ ConfCol(q) > ConfCol(p)
    \/ ConfCol(q) = ConfCol(p) /\ HasSecCol(q) > HasSecCol(p)

\* C24: in the merged row of a fuzzy group every filled column is missing
\* only if it is missing in every row of the group, and otherwise holds the
\* value of a row of the group that has one and that no other row with a
\* value outranks (so the base's own value when the base has one).
C24_FirstWriterWins ==
    pc = "merged" =>
        \A g \in 1..Len(groups) : \A col \in FillCols :
            LET mem == {dedup[r] : r \in GroupMembers(g)}
            IN  IF \A m \in mem : MissingIn(m, col)
                THEN MissingIn(keep_rows[g], col)
                ELSE \E m \in mem :
                        /\ ~MissingIn(m, col)
                        /\ keep_rows[g][col] = m[col]
                        /\ \A q \in mem : Outranks(q, m) => MissingIn(q, col)

\* A group of three rows: the base has no price and no value, the price is
\* filled from the HIGH row (10, not the LOW row's 20), the value from the LOW
\* row, and the base's source_url stays although the LOW row has another.
C24_Witness ==
    /\ pc = "merged"
    /\ \E g \in 1..Len(groups) :
          /\ Len(groups[g]) = 3
          /\ \E b, h, l \in GroupMembers(g) :
                /\ dedup[b].event_id = keep_rows[g].event_id
                /\ dedup[b].price = NoNum /\ dedup[b].value_usd = NoNum
                /\ dedup[h].confidence = "HIGH" /\ dedup[h].price = 10
                /\ dedup[l].confidence = "LOW" /\ dedup[l].price = 20
                /\ dedup[l].value_usd = 100
                /\ dedup[l].source_url # dedup[b].source_url
                /\ keep_rows[g].price = 10
                /\ keep_rows[g].value_usd = 100
                /\ keep_rows[g].source_url = dedup[b].source_url

\* C25: no two rows of the output have the same fingerprint, the fingerprint
\* of a row being that of its fields as they stand after the merge.
C25_OutputFingerprintsDistinct ==
    pc = "merged" =>
        \A i, j \in 1..Len(out) :
            i # j => OwnFingerprint(out[i]) # OwnFingerprint(out[j])

\* C28: the fuzzy groups are a partition of the rows left by the exact pass
\* (no group is empty, every row is in a group, no row is in two groups or
\* twice in one), the output holds one row for each group, the merged row of
\* that group, and the output has no more rows than the input.
C28_ClustersPartition ==
    pc = "merged" =>
        /\ \A g \in 1..Len(groups) :
              /\ Len(groups[g]) >= 1
              /\ Cardinality(GroupMembers(g)) = Len(groups[g])
              /\ GroupMembers(g) \subseteq 1..Len(dedup)
              /\ \A r \in GroupMembers(g) : GroupOf(r) = g
              /\ \E r \in GroupMembers(g) : keep_rows[g].event_id = dedup[r].event_id
        /\ \A r \in 1..Len(dedup) : \E g \in 1..Len(groups) : r \in GroupMembers(g)
        /\ Len(keep_rows) = Len(groups)
        /\ Len(out) = Len(groups)
        /\ \A g \in 1..Len(groups) : \E j \in 1..Len(out) : out[j] = keep_rows[g]
        /\ Len(out) <= Len(dedup)
        /\ Len(dedup) <= Len(records)

\* Three rows left by the exact pass, in a group of two and a group of one,
\* and two output rows.
C28_Witness ==
    /\ pc = "merged"
    /\ Len(dedup) = 3
    /\ Len(groups) = 2
    /\ {Len(groups[1]), Len(groups[2])} = {1, 2}
    /\ GroupMembers(1) \cup GroupMembers(2) = {1, 2, 3}
    /\ Len(out) = 2

\* C29: any two rows of one fuzzy group both have a trade date and the two
\* dates are at most one day apart.
C29_ClusterSpansTwoDays ==
    pc = "merged" =>
        \A g \in 1..Len(groups) : \A r, q \in GroupMembers(g) :
            r # q =>
                /\ dedup[r].trade_date # NoDate
                /\ dedup[q].trade_date # NoDate
                /\ Abs(dedup[r].trade_date - dedup[q].trade_date) <= 1

\* Rows of one bucket given as day 2, undated, day 1: the rows of day 1 and
\* day 2 are one group, the undated row is a group of its own.
C29_Witness ==
    /\ pc = "merged"
    /\ Len(records) = 3
    /\ records[1].trade_date = 2
    /\ records[2].trade_date = NoDate
    /\ records[3].trade_date = 1
    /\ Len(groups) = 2
    /\ GroupDates(1) = {1, 2}
    /\ GroupDates(2) = {NoDate}

----------------------------------------------------------------------------
(* Properties of merge_and_dedupe (checked under SpecPermute) *)

\* Two different rows of the frame have the same confidence and the same
\* link presence, and either the same event_id or the same bucket and the
\* same trade date (or both no trade date): no sort of merge_and_dedupe
\* tells them apart.
TiedRows ==
    \E i, j \in 1..Len(records) :
        /\ records[i] # records[j]
        /\ ConfCol(records[i]) = ConfCol(records[j])
        /\ HasSecCol(records[i]) = HasSecCol(records[j])
        /\ \/ records[i].event_id = records[j].event_id
           \/ /\ GroupKey(records[i]) = GroupKey(records[j])
              /\ records[i].trade_date = records[j].trade_date

\* C30 as stated: the rows of the frame in another order give the same
\* output rows in the same order.
C30_OrderIndependent ==
    pc = "merged" => out_perm = out

\* C30: the rows of the frame in another order give the same output rows in
\* the same order when no two different rows agree in confidence and link
\* presence and also in event_id or in bucket and trade date.
C30_OrderIndependentWithoutTies ==
    (pc = "merged" /\ ~TiedRows) => out_perm = out

\* Three different rows without such a tie, two of them with one event_id and
\* two of them merged, were given in two different orders: the output is the
\* same.
C30_Witness ==
    /\ pc = "merged"
    /\ Len(records) = 3
    /\ Cardinality({records[i] : i \in 1..3}) = 3
    /\ permuted # records
    /\ ~TiedRows
    /\ Len(dedup) = 2
    /\ Len(out) = 1
    /\ out_perm = out

----------------------------------------------------------------------------
(* Properties of sha1_event_id (checked under SpecFp) *)

\* The two argument tuples differ in the letter case of the ticker and in
\* nothing else.
OnlyTickerCaseDiffers ==
    /\ pc = "fpdone"
    /\ FpDiff(fpArgs[1], fpArgs[2]) = {"ticker"}
    /\ UpperTicker(fpArgs[1].ticker) = UpperTicker(fpArgs[2].ticker)

\* The two argument tuples differ in the letter case of the insider name and
\* in nothing else.
OnlyNameCaseDiffers ==
    /\ pc = "fpdone"
    /\ FpDiff(fpArgs[1], fpArgs[2]) = {"insider"}
    /\ {fpArgs[1].insider, fpArgs[2].insider} = {"Smith Jane", "smith jane"}

\* C26 as stated: arguments that differ only in the letter case of the ticker
\* get the same fingerprint, and arguments that differ only in the letter
\* case of the insider name get different fingerprints.
C26_TickerCaseIgnored ==
    /\ OnlyTickerCaseDiffers => fpIds[1] = fpIds[2]
    /\ OnlyNameCaseDiffers => fpIds[1] # fpIds[2]

\* C26: the fingerprint takes the ticker and the insider name as they are
\* given: arguments that differ only in the letter case of the ticker get
\* different fingerprints, and so do arguments that differ only in the
\* letter case of the insider name.
C26_TickerCaseKept ==
    /\ OnlyTickerCaseDiffers => fpIds[1] # fpIds[2]
    /\ OnlyNameCaseDiffers => fpIds[1] # fpIds[2]

\* sha1_event_id was applied to "ACME" and to "acme", all else equal.
C26_Witness ==
    /\ OnlyTickerCaseDiffers
    /\ fpArgs[1].ticker = "ACME" /\ fpArgs[2].ticker = "acme"
    /\ fpIds[1] # fpIds[2]

----------------------------------------------------------------------------
(* Properties of the run (checked under Spec) *)

\* target = r.filing_date or r.trade_date
EnrichTarget(r) == IF r.filing_date # NoDate THEN r.filing_date ELSE r.trade_date

\* The iteration of record i ran to its end (i is not behind a raise).
Classified(i) == raised = 0 \/ i < raised

\* The filing matched for record i is dated and d days from the record's target.
MatchedAtDistance(i, d) ==
    /\ matched[i] # NoFiling
    /\ matched[i].filing_date # NoDate
    /\ EnrichTarget(raw[i]) # NoDate
    /\ Abs(matched[i].filing_date - EnrichTarget(raw[i])) = d

IsLandingUrl(l) == Len(l) = 3 /\ l[1] = "https://data.sec.gov/submissions/CIK"

\* C7 (as stated): a record whose ticker is not in the ticker table raises
\* nothing and comes out LOW with the generic fallback reference as sec_link.
C7_UnknownTickerGetsFallback ==
    pc = "enriched" =>
        \A i \in 1..Len(records) :
            TickerToCik(raw[i].ticker)[1] = NoStr =>
                /\ raised # i
                /\ Classified(i) =>
                      /\ records[i].confidence = "LOW"
                      /\ IsLandingUrl(records[i].sec_link)

\* C7 (amended): a record whose ticker is not in the ticker table and whose
\* sec_link has no archive path raises nothing and comes out LOW; its
\* sec_link is left as it was (None when it was blank), and no fallback
\* reference is set.
C7_UnknownTickerIsLowLinkKept ==
    pc = "enriched" =>
        \A i \in 1..Len(records) :
            (TickerToCik(raw[i].ticker)[1] = NoStr /\ ~HasArchivePath(raw[i].sec_link)) =>
                /\ raised # i
                /\ Classified(i) =>
                      /\ records[i].confidence = "LOW"
                      /\ records[i].sec_link =
                             (IF BlankLink(raw[i].sec_link) THEN NoLink ELSE raw[i].sec_link)
                      /\ ~IsLandingUrl(records[i].sec_link)

\* An unknown ticker's record that was scraped HIGH with a non-archive link
\* came out LOW with that link.
C7_Witness ==
    /\ pc = "enriched"
    /\ pass = 1
    /\ \E i \in 1..Len(records) :
          /\ TickerToCik(raw[i].ticker)[1] = NoStr
          /\ raw[i].sec_link = OtherLink
          /\ raw[i].confidence = "HIGH"
          /\ Classified(i)
          /\ records[i].confidence = "LOW"
          /\ records[i].sec_link = OtherLink

\* Two rows of one fuzzy bucket, both dated, at most a day apart.
HasClosePair(rows) ==
    \E i, j \in 1..Len(rows) :
        /\ i < j
        /\ GroupKey(rows[i]) = GroupKey(rows[j])
        /\ rows[i].trade_date # NoDate /\ rows[j].trade_date # NoDate
        /\ Abs(rows[i].trade_date - rows[j].trade_date) <= 1

Malformed(r) == r.ticker = "" \/ r.insider_name = NoStr

\* Output row o stands for batch record r: it is the merged row of r's
\* bucket (same ticker, same normalised name, same rounded share count).
StandsFor(o, r) == GroupKey(o) = GroupKey(r)

\* C13 (as stated): a record without a ticker or without a name never appears
\* in the output, and every other record of the batch is output.
C13_MalformedRecordRejected ==
    pc = "merged" =>
        /\ \A j \in 1..Len(out) : ~Malformed(out[j])
        /\ \A i \in 1..Len(raw) :
              ~Malformed(raw[i]) => \E j \in 1..Len(out) : StandsFor(out[j], raw[i])

\* C13 (amended): no record is rejected.  A record without a name is merged
\* under the empty name and a record with an empty ticker as a ticker without
\* a CIK; every record of the batch, these included, is output as the merged
\* row of its bucket.
C13_MalformedRecordIsOutput ==
    pc = "merged" =>
        \A i \in 1..Len(raw) :
            \E j \in 1..Len(out) :
                /\ StandsFor(out[j], raw[i])
                /\ out[j].ticker = raw[i].ticker

\* A batch of a nameless record and a well-formed one came out as two rows,
\* the nameless one among them.
C13_Witness ==
    /\ pc = "merged"
    /\ pass = 1
    /\ Len(raw) = 2
    /\ raw[1].insider_name = NoStr /\ ~Malformed(raw[2])
    /\ Len(out) = 2
    /\ \E j \in 1..Len(out) : out[j].insider_name = NoStr /\ out[j].confidence = "LOW"

\* C18: a record whose sec_link contains the archive path comes out of its
\* iteration with confidence HIGH and every other field as it was; no ticker
\* lookup result is written and no filing is matched, whether the ticker has
\* a CIK or not and whether a filing would match or not.
C18_ArchiveLinkOnlySetsHigh ==
    pc = "enriched" =>
        \A i \in 1..Len(records) :
            (Classified(i) /\ HasArchivePath(raw[i].sec_link)) =>
                /\ records[i] = [raw[i] EXCEPT !.confidence = "HIGH"]
                /\ matched[i] = NoFiling
                /\ raised # i

\* On the second pass a MED record with the index link of a filing, of a
\* ticker with a CIK and with a filing that would match, came out HIGH with
\* nothing else changed.
C18_Witness ==
    /\ pc = "enriched"
    /\ pass = 2
    /\ \E i \in 1..Len(records) :
          /\ Classified(i)
          /\ HasArchivePath(raw[i].sec_link)
          /\ raw[i].confidence = "MED"
          /\ TickerToCik(raw[i].ticker)[1] # NoStr
          /\ FindForm4FilingNear(recent, raw[i].trade_date, raw[i].filing_date, DefaultMaxDays)
                 # NoFiling
          /\ records[i] = [raw[i] EXCEPT !.confidence = "HIGH"]

\* Record i has no archive link and its ticker has no CIK, and its iteration ran.
NoCikCase(i) ==
    /\ Classified(i)
    /\ ~HasArchivePath(raw[i].sec_link)
    /\ TickerToCik(raw[i].ticker)[1] = NoStr

\* C19 (as stated): such a record comes out LOW with its sec_link cleared,
\* whatever it held, and every other field as it was.
C19_NoCikClearsLink ==
    pc = "enriched" =>
        \A i \in 1..Len(records) :
            NoCikCase(i) =>
                records[i] = [raw[i] EXCEPT !.confidence = "LOW", !.sec_link = NoLink]

\* C19 (amended): such a record comes out LOW; its sec_link is None if it was
\* blank and is otherwise left as it was; a missing company_name becomes the
\* title of the ticker's table entry if there is one (an entry without a
\* cik_str); every other field is as it was.
C19_NoCikKeepsLink ==
    pc = "enriched" =>
        \A i \in 1..Len(records) :
            NoCikCase(i) =>
                records[i] =
                    [raw[i] EXCEPT
                        !.confidence = "LOW",
                        !.sec_link = IF BlankLink(@) THEN NoLink ELSE @,
                        !.company_name =
                            IF @ = NoStr /\ TickerToCik(raw[i].ticker)[2] # NoStr
                            THEN TickerToCik(raw[i].ticker)[2] ELSE @]

\* Two records without a CIK went through: one with a scraped link and a
\* filing date kept both, one without a company name got the table's title.
C19_Witness ==
    /\ pc = "enriched"
    /\ pass = 1
    /\ \E i, j \in 1..Len(records) :
          /\ NoCikCase(i) /\ NoCikCase(j)
          /\ raw[i].sec_link = OtherLink /\ records[i].sec_link = OtherLink
          /\ raw[i].filing_date # NoDate /\ records[i].filing_date = raw[i].filing_date
          /\ raw[j].company_name = NoStr /\ records[j].company_name = "Nocik Ltd"
          /\ records[j].sec_link = NoLink

\* C27 as stated: when enrich_sec_links raises part-way, the batch that goes
\* on to the merge is as it was scraped.
C27_RaisedBatchAsScraped ==
    (pc = "enriched" /\ raised # 0) => records = raw

\* C27: when enrich_sec_links raises at record k, the batch that goes on to
\* the merge holds the records before k as their classification left them
\* (confidence, sec_link, filing_date and company_name assigned in place),
\* record k with at most its company_name filled in, and the records after
\* k as they were scraped.
C27_RaisedBatchPartlyEnriched ==
    (pc = "enriched" /\ raised # 0) =>
        /\ Len(records) = Len(raw)
        /\ \A i \in 1..Len(raw) :
              /\ i < raised =>
                    /\ records[i] = EnrichRecord(raw[i], recent, subsOk).rec
                    /\ HasArchivePath(raw[i].sec_link) => records[i].confidence = "HIGH"
                    /\ TickerToCik(raw[i].ticker)[1] = NoStr /\ ~HasArchivePath(raw[i].sec_link)
                          => records[i].confidence = "LOW"
              /\ i = raised =>
                    records[i] = [raw[i] EXCEPT !.company_name = records[i].company_name]
              /\ i > raised => records[i] = raw[i]

\* enrich_sec_links raised at the second record after it had changed the
\* confidence of the first.
C27_Witness ==
    /\ pc = "enriched"
    /\ raised = 2
    /\ records[1].confidence # raw[1].confidence
    /\ records # raw

====
